---- MODULE Spec2Model ----
(***************************************************************************)
(* A model of the semantic core of the artc compiler:                      *)
(*   - the on-demand top-level resolver (src/src/check/top_level.rs),      *)
(*   - the unifier over the type context                                   *)
(*     (src/compiler/chili_check/src/unify.rs and                          *)
(*      src/compiler/chili_infer/src/unify.rs).                            *)
(***************************************************************************)
EXTENDS Integers, Sequences, FiniteSets, TLC

VARIABLES
    prog,               \* the parsed modules handed to the checker (ast::Module list, libraries)
    queued_modules,     \* CheckSess::queued_modules : ModuleId -> QueuedModule
    encountered_items,  \* CheckSess::encountered_items : set of (ModuleId, index)
    global_scopes,      \* CheckSess::global_scopes : ModuleId -> (name -> BindingId)
    stack,              \* the Rust call stack of the checker, innermost frame last
    ret,                \* the value returned by the frame that was popped last
    started,            \* history: (module, index) -> number of check_top_level starts
    comptime_started,   \* history: (module, index) -> number of comptime checks
    calls               \* number of check_module calls the driver has made

topVars == <<prog, queued_modules, encountered_items, global_scopes, stack, ret,
             started, comptime_started, calls>>

VARIABLES
    crate,              \* which unifier the session uses: "chili_check" or "chili_infer"
    tycx,               \* the type context: InferenceValue of every type id, 1..Len(tycx)
    allocated,          \* history: how every type id was allocated
    last                \* history: the last unify call, the context before it and its result

tyVars == <<crate, tycx, allocated, last>>

VARIABLES
    call                \* the last call of a function of the compiler: its name, arguments, outcome

VARIABLES
    binding_infos,      \* Workspace::binding_infos : BindingId -> BindingInfo, ids 1..Len(binding_infos)
    env                 \* the Env a pattern is bound in: module, scope level, local bindings

patVars == <<binding_infos, env>>

VARIABLES
    interp,             \* Interp: the constants and the functions of the bytecode
    vm                  \* VM: the value stack, the frames, the current frame, the result of the run

vmVars == <<interp, vm>>

VARIABLES
    driver,             \* start_workspace: where it is, the workspace's diagnostics, what it ran and emitted
    astgen              \* generate_ast_inner: the parser cache, the tasks of the pool, the channel, the modules

\* the parts of the compiler around the checker
sysVars == <<vmVars, driver, astgen>>

\* the checker: the resolver, the type context, the patterns
checkerVars == <<topVars, tyVars, call, patVars>>

vars == <<topVars, tyVars, call, patVars, sysVars>>

\* the variables the resolver leaves alone, and those the unifier leaves alone
notTopVars == <<tyVars, call, patVars, sysVars>>
notTyVars == <<topVars, call, patVars, sysVars>>

-----------------------------------------------------------------------------
(* Bounds of the model *)

\* how many times the driver calls check_module
MaxCalls == 3

-----------------------------------------------------------------------------
(* The input programs *)

StdRoot == 0
UserModules == {1, 2}
Modules == {StdRoot} \cup UserModules
OtherModule(m) == IF m = 1 THEN 2 ELSE 1

\* sym::SELF, sym::SUPER and the names get_builtin_type knows
SymSelf == "self"
SymSuper == "super"
BuiltinTypeNames == {"unit", "bool", "i8", "i16", "i32", "i64", "int",
                     "u8", "u16", "u32", "u64", "uint",
                     "f16", "f32", "f64", "float", "never", "str"}

\* The three calls the expression checker makes into the resolver while it
\* elaborates a binding or a comptime block
NameRef(n) == <<"Name", n>>          \* check_top_level_name(n, own module, .., false)
ImportRef(m) == <<"Import", m>>      \* check_module_by_id(m)
MemberRef(m, n) == <<"Member", m, n>>  \* check_top_level_name(n, m, .., true)

Binding(n, v, r) == [name |-> n, vis |-> v, refs |-> r]
Comptime(r) == [refs |-> r]
Module(bs, cs, p) == [bindings |-> bs, comptime_blocks |-> cs, parent |-> p]
Library(n, root) == [name |-> n, root_module_id |-> root]

\* the std library: its root module exports `p` and keeps `q` private
StdModule == Module(<<Binding("p", "Public", <<>>), Binding("q", "Private", <<>>)>>, <<>>, {})
StdLibrary == Library("std", StdRoot)

\* Programs in which the bindings of two modules refer to each other
GraphRefs(m) ==
    LET o == OtherModule(m) IN
    { <<>>, <<NameRef("a")>>, <<NameRef("b")>>, <<NameRef("zz")>>,
      <<ImportRef(o)>>, <<ImportRef(o), MemberRef(o, "a")>>, <<ImportRef(o), MemberRef(o, "b")>> }

GraphPrograms ==
    { [modules |-> (StdRoot :> StdModule)
                   @@ (1 :> Module(<<Binding("a", "Private", ra), Binding("b", "Public", rb)>>,
                                   <<Comptime(rc)>>, {}))
                   @@ (2 :> Module(<<Binding("a", v2, r2)>>, <<>>, {1})),
       libraries |-> {StdLibrary}] :
        ra \in GraphRefs(1), rb \in GraphRefs(1), rc \in {<<>>, <<ImportRef(1)>>, <<NameRef("b")>>},
        v2 \in {"Private", "Public"}, r2 \in GraphRefs(2) }

\* Programs that look one name up, among bindings, libraries and builtin
\* types whose names may coincide
LookupNames == {"a", "b", "int", "std", "p", "q", "zz", SymSelf, SymSuper}

NameRefs(m) ==
    {<<NameRef(n)>> : n \in LookupNames}
    \cup {<<ImportRef(OtherModule(m)), MemberRef(OtherModule(m), n)>> : n \in LookupNames}

NameLookers ==
    {<<r1, <<>>>> : r1 \in NameRefs(1)} \cup {<<<<>>, r2>> : r2 \in NameRefs(2)}

NamePrograms ==
    { [modules |-> (StdRoot :> StdModule)
                   @@ (1 :> Module(<<Binding("b", "Public", rr[1]), Binding(n1, "Public", <<>>)>>, <<>>, {}))
                   @@ (2 :> Module(<<Binding(n2, v2, <<>>), Binding("b", "Public", rr[2])>>, <<>>, {1})),
       libraries |-> ls] :
        rr \in NameLookers, n1 \in {"a", "int", "std", "p"},
        n2 \in {"a", "int"}, v2 \in {"Private", "Public"},
        ls \in {{StdLibrary}, {StdLibrary, Library("int", 2)}} }

Programs == GraphPrograms \cup NamePrograms

-----------------------------------------------------------------------------
(* Values of the checker *)

\* a BindingId: the binding it was created for and which elaboration created it
BindingId(m, i, k) == <<m, i, k>>

\* QueuedModule; `present` is membership in the queued_modules map
NotQueued == [present |-> FALSE, all_complete |-> FALSE,
              queued_bindings |-> {}, queued_comptime |-> {}]
\* a QueuedModule that is created complete
QueuedModule_complete == [present |-> TRUE, all_complete |-> TRUE,
                          queued_bindings |-> {}, queued_comptime |-> {}]

\* the QueuedModule check_module inserts for a module it sees for the first time
QueuedModule == [present |-> TRUE, all_complete |-> FALSE,
                    queued_bindings |-> {}, queued_comptime |-> {}]

\* stack frames
ModuleFrame(m) == [fn |-> "check_module", module |-> m, phase |-> "enter", index |-> 1]
ItemFrame(m, i, kind, origin, gen) ==
    [fn |-> "check_top_level", module |-> m, index |-> i, kind |-> kind,
     origin |-> origin, gen |-> gen, pos |-> 0]
NameFrame(n, m, c, o, pre) ==
    [fn |-> "check_top_level_name", name |-> n, module |-> m, caller |-> c,
     is_other_module |-> o, stage |-> "enter", target |-> <<m, 0>>, pre_checked |-> pre]

\* results: CheckResult of the function that returned last
NoTarget == <<StdRoot, 0>>
NoRet == [status |-> "none", err |-> "", fn |-> "", via |-> "", name |-> "",
          module |-> StdRoot, caller |-> StdRoot, is_other_module |-> FALSE,
          pre_checked |-> FALSE, resolved |-> FALSE, target |-> NoTarget]
ModuleRet(m, status, err) ==
    [NoRet EXCEPT !.status = status, !.err = err, !.fn = "check_module", !.module = m]
ItemRet(f, status, err) ==
    [NoRet EXCEPT !.status = status, !.err = err, !.fn = "check_top_level",
                  !.module = f.module, !.target = <<f.module, f.index>>]
NameRet(f, status, err, via, target, resolved) ==
    [NoRet EXCEPT !.status = status, !.err = err, !.fn = "check_top_level_name",
                  !.via = via, !.name = f.name, !.module = f.module, !.caller = f.caller,
                  !.is_other_module = f.is_other_module, !.pre_checked = f.pre_checked,
                  !.target = target, !.resolved = resolved]

Top == stack[Len(stack)]
Pop == SubSeq(stack, 1, Len(stack) - 1)
Push(f) == Append(stack, f)
ReplaceTop(f) == [stack EXCEPT ![Len(stack)] = f]

Started(k) == IF k \in DOMAIN started THEN started[k] ELSE 0
ComptimeStarted(k) == IF k \in DOMAIN comptime_started THEN comptime_started[k] ELSE 0

-----------------------------------------------------------------------------
(* The resolver: src/src/check/top_level.rs *)

ModuleOf(m) == prog.modules[m]

\* ast::Module::find_binding: the first binding that binds the name, or 0
find_binding(m, name) ==
    LET bs == ModuleOf(m).bindings
        hits == {i \in 1..Len(bs) : bs[i].name = name}
    IN IF hits = {} THEN 0 ELSE CHOOSE i \in hits : \A j \in hits : i <= j

\* HashMap::insert of the module's global scope
insert_global_binding_id(scopes, m, name, id) ==
    [scopes EXCEPT ![m] = (name :> id) @@ scopes[m]]

\* validate_item_vis without the comparison of the modules
validate_item_vis_any_module(id, caller_module) ==
    IF ModuleOf(id[1]).bindings[id[2]].vis = "Private" THEN "private" ELSE ""

validate_item_vis(id, caller_module) ==
    IF ModuleOf(id[1]).bindings[id[2]].vis = "Private" /\ id[1] # caller_module
    THEN "private" ELSE ""

get_completed_module_type(m) ==
    queued_modules[m].present /\ queued_modules[m].all_complete

get_builtin_type(name) == name \in BuiltinTypeNames

find_library(name) == {l \in prog.libraries : l.name = name}

\* the part of bind_name that decides about the module's global scope:
\* the result and the scopes after it
bind_name(scopes, m, i, gen) ==
    LET name == ModuleOf(m).bindings[i].name
        id == BindingId(m, i, gen)
    IN IF name \in DOMAIN scopes[m]
       THEN IF <<scopes[m][name][1], scopes[m][name][2]>> # <<m, i>>
            THEN [err |-> "duplicate", scopes |-> scopes]
            ELSE [err |-> "", scopes |-> scopes]
       ELSE [err |-> "", scopes |-> insert_global_binding_id(scopes, m, name, id)]

\* a loop that visits the bindings last to first
BindingOrder_reversed(m, k) == Len(ModuleOf(m).bindings) - k + 1

\* module.bindings.iter().enumerate(): the k-th binding the loop visits
BindingOrder(m, k) == k

\* a check that goes on after a failed lookup
LookupFailed_ignored(r) == FALSE

\* `?` on the result of a lookup or an import inside the check of an item
LookupFailed(r) == r.status = "Err"

Running == Len(stack) > 0

\* the driver of the check stage calls check_module on a module
DriverCheckModule(m) ==
    /\ stack = <<>>
    /\ ret.status # "Panic"
    /\ calls < MaxCalls
    /\ stack' = <<ModuleFrame(m)>>
    /\ ret' = NoRet
    /\ calls' = calls + 1
    /\ UNCHANGED <<prog, queued_modules, encountered_items, global_scopes, started,
                   comptime_started>>
    /\ UNCHANGED notTopVars

\* check_module, lines 226-248: the completed module returns at once, a new
\* module is added to queued_modules
CheckModule ==
    /\ Running /\ ret.status = "none"
    /\ Top.fn = "check_module" /\ Top.phase = "enter"
    /\ LET m == Top.module IN
       IF get_completed_module_type(m)
       THEN /\ stack' = Pop
            /\ ret' = ModuleRet(m, "Ok", "")
            /\ UNCHANGED queued_modules
       ELSE /\ queued_modules' = IF queued_modules[m].present THEN queued_modules
                                 ELSE [queued_modules EXCEPT ![m] = QueuedModule]
            /\ stack' = ReplaceTop([Top EXCEPT !.phase = "bindings", !.index = 1])
            /\ UNCHANGED ret
    /\ UNCHANGED <<prog, encountered_items, global_scopes, started, comptime_started, calls>>
    /\ UNCHANGED notTopVars

\* check_module, lines 250-262: the loop over the bindings and all_complete
CheckModuleBindings ==
    /\ Running
    /\ Top.fn = "check_module" /\ Top.phase = "bindings"
    /\ LET m == Top.module
           k == Top.index
           i == BindingOrder(m, k)
       IN IF ret.status = "none"
          THEN IF k > Len(ModuleOf(m).bindings)
               THEN /\ queued_modules' = [queued_modules EXCEPT ![m].all_complete = TRUE]
                    /\ stack' = ReplaceTop([Top EXCEPT !.phase = "comptime", !.index = 1])
                    /\ UNCHANGED <<ret, started>>
               ELSE IF i \in queued_modules[m].queued_bindings
               THEN /\ stack' = ReplaceTop([Top EXCEPT !.index = k + 1])
                    /\ UNCHANGED <<ret, started, queued_modules>>
               ELSE /\ queued_modules' =
                         [queued_modules EXCEPT ![m].queued_bindings = @ \cup {i}]
                    /\ started' = (<<m, i>> :> Started(<<m, i>>) + 1) @@ started
                    /\ stack' = Push(ItemFrame(m, i, "binding", "loop", Started(<<m, i>>) + 1))
                    /\ UNCHANGED ret
          ELSE /\ IF ret.status = "Err"
                  THEN /\ stack' = Pop
                       /\ ret' = ModuleRet(m, "Err", ret.err)
                  ELSE /\ stack' = ReplaceTop([Top EXCEPT !.index = k + 1])
                       /\ ret' = NoRet
               /\ UNCHANGED <<queued_modules, started>>
    /\ UNCHANGED <<prog, encountered_items, global_scopes, comptime_started, calls>>
    /\ UNCHANGED notTopVars

\* check_module, lines 264-280: the loop over the comptime blocks
CheckModuleComptime ==
    /\ Running
    /\ Top.fn = "check_module" /\ Top.phase = "comptime"
    /\ LET m == Top.module
           i == Top.index
       IN IF ret.status = "none"
          THEN IF i > Len(ModuleOf(m).comptime_blocks)
               THEN /\ stack' = Pop
                    /\ ret' = ModuleRet(m, "Ok", "")
                    /\ UNCHANGED <<comptime_started, queued_modules>>
               ELSE IF i \in queued_modules[m].queued_comptime
               THEN /\ stack' = ReplaceTop([Top EXCEPT !.index = i + 1])
                    /\ UNCHANGED <<ret, comptime_started, queued_modules>>
               ELSE /\ queued_modules' =
                         [queued_modules EXCEPT ![m].queued_comptime = @ \cup {i}]
                    /\ comptime_started' =
                         (<<m, i>> :> ComptimeStarted(<<m, i>>) + 1) @@ comptime_started
                    /\ stack' = Push(ItemFrame(m, i, "comptime", "loop", 1))
                    /\ UNCHANGED ret
          ELSE /\ IF ret.status = "Err"
                  THEN /\ stack' = Pop
                       /\ ret' = ModuleRet(m, "Err", ret.err)
                  ELSE /\ stack' = ReplaceTop([Top EXCEPT !.index = i + 1])
                       /\ ret' = NoRet
               /\ UNCHANGED <<queued_modules, comptime_started>>
    /\ UNCHANGED <<prog, encountered_items, global_scopes, started, calls>>
    /\ UNCHANGED notTopVars

\* the calls an item (a binding or a comptime block) makes while it is checked
RefsOf(f) ==
    IF f.kind = "binding" THEN ModuleOf(f.module).bindings[f.index].refs
    ELSE ModuleOf(f.module).comptime_blocks[f.index].refs

CalleeFrame(f, ref) ==
    IF ref[1] = "Name"
    THEN NameFrame(ref[2], f.module, f.module, FALSE, ref[2] \in DOMAIN global_scopes[f.module])
    ELSE IF ref[1] = "Member"
    THEN NameFrame(ref[3], ref[2], f.module, TRUE, ref[3] \in DOMAIN global_scopes[ref[2]])
    ELSE ModuleFrame(ref[2])

\* CheckTopLevel::check_top_level of a binding (lines 355-385) and the check
\* of a comptime block (line 272): the value is checked, which looks names
\* up and imports modules, an error of a lookup is returned with `?`, and
\* at the end the name of the binding is bound
CheckTopLevel ==
    /\ Running
    /\ Top.fn = "check_top_level"
    /\ LET f == Top IN
       IF ret.status = "none"
       THEN IF f.pos < Len(RefsOf(f))
            THEN /\ stack' = Push(CalleeFrame(f, RefsOf(f)[f.pos + 1]))
                 /\ UNCHANGED <<ret, global_scopes>>
            ELSE IF f.kind = "binding"
            THEN LET b == bind_name(global_scopes, f.module, f.index, f.gen) IN
                 /\ global_scopes' = b.scopes
                 /\ stack' = Pop
                 /\ ret' = ItemRet(f, IF b.err = "" THEN "Ok" ELSE "Err", b.err)
            ELSE /\ stack' = Pop
                 /\ ret' = ItemRet(f, "Ok", "")
                 /\ UNCHANGED global_scopes
       ELSE /\ IF LookupFailed(ret)
               THEN /\ stack' = Pop
                    /\ ret' = ItemRet(f, "Err", ret.err)
               ELSE /\ stack' = ReplaceTop([f EXCEPT !.pos = f.pos + 1])
                    /\ ret' = NoRet
            /\ UNCHANGED global_scopes
    /\ UNCHANGED <<prog, queued_modules, encountered_items, started, comptime_started, calls>>
    /\ UNCHANGED notTopVars

PanicRet == [NoRet EXCEPT !.status = "Panic"]

\* find_checked_top_level_name, lines 99-116, for a name that is in the
\* global scope of module m
FindCheckedReturn(f, m, via) ==
    LET id == global_scopes[m][f.name]
        e == validate_item_vis(id, f.caller)
    IN /\ stack' = Pop
       /\ ret' = NameRet(f, IF e = "" THEN "Ok" ELSE "Err", e, via, <<id[1], id[2]>>, TRUE)
       /\ UNCHANGED <<queued_modules, encountered_items, started>>

\* check_name_in_module, lines 124-146, for binding i of module m: the cycle
\* check, the insertion into queued_bindings, and the call of check_top_level
CheckNameInModuleCall(f, m, i, stage, via) ==
    IF <<m, i>> \in encountered_items
    THEN /\ stack' = Pop
         /\ ret' = NameRet(f, "Err", "cycle", via, <<m, i>>, FALSE)
         /\ UNCHANGED <<queued_modules, encountered_items, started>>
    ELSE IF ~queued_modules[m].present
    THEN \* queued_modules.get_mut(&module.id).unwrap()
         /\ encountered_items' = encountered_items \cup {<<m, i>>}
         /\ stack' = <<>>
         /\ ret' = PanicRet
         /\ UNCHANGED <<queued_modules, started>>
    ELSE /\ encountered_items' = encountered_items \cup {<<m, i>>}
         /\ queued_modules' = [queued_modules EXCEPT ![m].queued_bindings = @ \cup {i}]
         /\ started' = (<<m, i>> :> Started(<<m, i>>) + 1) @@ started
         /\ stack' = Append(ReplaceTop([f EXCEPT !.stage = stage, !.target = <<m, i>>]),
                            ItemFrame(m, i, "binding", "name", Started(<<m, i>>) + 1))
         /\ UNCHANGED ret

\* check_name_in_module, lines 146-160: after check_top_level has returned
CheckNameInModuleReturn(f, via) ==
    IF ret.status = "Ok"
    THEN LET id == BindingId(f.target[1], f.target[2], 0)
             e == validate_item_vis(id, f.caller)
         IN IF e = ""
            THEN /\ encountered_items' = encountered_items \ {f.target}
                 /\ stack' = Pop
                 /\ ret' = NameRet(f, "Ok", "", via, f.target, TRUE)
            ELSE /\ stack' = Pop
                 /\ ret' = NameRet(f, "Err", e, via, f.target, TRUE)
                 /\ UNCHANGED encountered_items
    ELSE /\ stack' = Pop
         /\ ret' = NameRet(f, "Err", ret.err, via, f.target, FALSE)
         /\ UNCHANGED encountered_items

\* the alternatives with the builtin types tried before the libraries
top_level_alternative_builtin_first(name, m, is_other_module) ==
    IF name \in DOMAIN global_scopes[m] THEN "checked"
    ELSE IF find_binding(m, name) # 0 THEN "unchecked"
    ELSE IF name = SymSelf THEN "self"
    ELSE IF name = SymSuper THEN "super"
    ELSE IF is_other_module THEN "none"
    ELSE IF get_builtin_type(name) THEN "builtin"
    ELSE IF find_library(name) # {} THEN "library"
    ELSE IF name \in DOMAIN global_scopes[StdRoot] \/ find_binding(StdRoot, name) # 0
    THEN "prelude"
    ELSE "none"

\* The alternative check_top_level_name takes for a name, lines 36-90
top_level_alternative(name, m, is_other_module) ==
    IF name \in DOMAIN global_scopes[m] THEN "checked"
    ELSE IF find_binding(m, name) # 0 THEN "unchecked"
    ELSE IF name = SymSelf THEN "self"
    ELSE IF name = SymSuper THEN "super"
    ELSE IF is_other_module THEN "none"
    ELSE IF find_library(name) # {} THEN "library"
    ELSE IF get_builtin_type(name) THEN "builtin"
    ELSE IF name \in DOMAIN global_scopes[StdRoot] \/ find_binding(StdRoot, name) # 0
    THEN "prelude"
    ELSE "none"

\* check_top_level_name, lines 21-96, with find_checked_top_level_name,
\* check_name_in_module and check_name_in_std_prelude
CheckTopLevelName ==
    /\ Running
    /\ Top.fn = "check_top_level_name"
    /\ LET f == Top
           m == f.module
           alt == top_level_alternative(f.name, m, f.is_other_module)
       IN IF f.stage = "enter"
          THEN CASE alt = "checked" -> FindCheckedReturn(f, m, "checked")
                 [] alt = "unchecked" ->
                      CheckNameInModuleCall(f, m, find_binding(m, f.name), "in_module", "unchecked")
                 [] alt = "self" ->
                      /\ stack' = Pop
                      /\ ret' = NameRet(f, "Ok", "", "self", NoTarget, FALSE)
                      /\ UNCHANGED <<queued_modules, encountered_items, started>>
                 [] alt = "super" ->
                      /\ stack' = Pop
                      /\ ret' = IF ModuleOf(m).parent # {}
                                THEN NameRet(f, "Ok", "", "super", NoTarget, FALSE)
                                ELSE NameRet(f, "Err", "no_parent", "super", NoTarget, FALSE)
                      /\ UNCHANGED <<queued_modules, encountered_items, started>>
                 [] alt = "library" ->
                      /\ stack' = Append(ReplaceTop([f EXCEPT !.stage = "library"]),
                            ModuleFrame((CHOOSE l \in find_library(f.name) : TRUE).root_module_id))
                      /\ UNCHANGED <<ret, queued_modules, encountered_items, started>>
                 [] alt = "builtin" ->
                      /\ stack' = Pop
                      /\ ret' = NameRet(f, "Ok", "", "builtin", NoTarget, FALSE)
                      /\ UNCHANGED <<queued_modules, encountered_items, started>>
                 [] alt = "prelude" ->
                      IF f.name \in DOMAIN global_scopes[StdRoot]
                      THEN FindCheckedReturn(f, StdRoot, "prelude")
                      ELSE CheckNameInModuleCall(f, StdRoot, find_binding(StdRoot, f.name),
                                                 "prelude", "prelude")
                 [] OTHER ->
                      /\ stack' = Pop
                      /\ ret' = NameRet(f, "Err", "not_found", "none", NoTarget, FALSE)
                      /\ UNCHANGED <<queued_modules, encountered_items, started>>
          ELSE IF f.stage = "library"
          THEN /\ stack' = Pop
               /\ ret' = IF ret.status = "Err"
                         THEN NameRet(f, "Err", ret.err, "library", NoTarget, FALSE)
                         ELSE NameRet(f, "Ok", "", "library", NoTarget, FALSE)
               /\ UNCHANGED <<queued_modules, encountered_items, started>>
          ELSE /\ CheckNameInModuleReturn(f, IF f.stage = "prelude" THEN "prelude"
                                             ELSE "unchecked")
               /\ UNCHANGED <<queued_modules, started>>
    /\ UNCHANGED <<prog, global_scopes, comptime_started, calls>>
    /\ UNCHANGED notTopVars

EmptyScopes == [m \in Modules |-> <<>>]

\* no type-checking session
NoLast == [a |-> <<>>, b |-> <<>>, res |-> "", pre |-> <<>>]
\* no function called yet
NoCall == [fn |-> "", in |-> <<>>, out |-> <<>>]
\* no pattern is being bound
NoEnv == <<>>
\* no bytecode is loaded and no VM runs
NoInterp == <<>>
NoVm == <<>>
VmIdle ==
    /\ interp = NoInterp
    /\ vm = NoVm

\* start_workspace has not been called, no files are being parsed
NoDriver == <<>>
NoAstgen == <<>>

\* the parts of the compiler around the checker are not in use
SysIdle == VmIdle /\ driver = NoDriver /\ astgen = NoAstgen

PatIdle ==
    /\ binding_infos = <<>>
    /\ env = NoEnv

TyIdle ==
    /\ call = NoCall
    /\ crate = ""
    /\ tycx = <<>>
    /\ allocated = <<>>
    /\ last = NoLast

InitTop ==
    /\ TyIdle
    /\ PatIdle
    /\ SysIdle
    /\ prog \in Programs
    /\ queued_modules = [m \in Modules |-> NotQueued]
    /\ encountered_items = {}
    /\ global_scopes = EmptyScopes
    /\ stack = <<>>
    /\ ret = NoRet
    /\ started = <<>>
    /\ comptime_started = <<>>
    /\ calls = 0

NextTop ==
    \/ \E m \in Modules : DriverCheckModule(m)
    \/ CheckModule
    \/ CheckModuleBindings
    \/ CheckModuleComptime
    \/ CheckTopLevel
    \/ CheckTopLevelName

SpecTop == InitTop /\ [][NextTop]_vars

-----------------------------------------------------------------------------
(* Properties of the resolver *)

BindingKeys == UNION {{<<m, i>> : i \in 1..Len(ModuleOf(m).bindings)} : m \in Modules}

\* C1: the elaboration (check_top_level) of every top-level binding, named by
\* (module id, binding index), is started at most once
C1_ElaboratedAtMostOnce == \A k \in BindingKeys : Started(k) <= 1

\* The bindings of module m that binding i refers to by name
NameEdges(m, i) ==
    LET refs == ModuleOf(m).bindings[i].refs IN
    {find_binding(m, refs[r][2]) : r \in {r \in 1..Len(refs) : refs[r][1] = "Name"}} \ {0}

RECURSIVE Reachable(_, _, _)
Reachable(m, S, n) ==
    IF n = 0 THEN S
    ELSE Reachable(m, S \cup UNION {NameEdges(m, i) : i \in S}, n - 1)

\* binding i of module m is on a cycle of references by name inside m
OnCycle(m, i) ==
    i \in Reachable(m, NameEdges(m, i), Len(ModuleOf(m).bindings))

Frames == {stack[k] : k \in 1..Len(stack)}
BindingFrames == {f \in Frames : f.fn = "check_top_level" /\ f.kind = "binding"}

InitCycle ==
    /\ InitTop
    /\ prog \in GraphPrograms
    /\ \E m \in UserModules : \E i \in 1..Len(ModuleOf(m).bindings) : OnCycle(m, i)

\* a check stage that goes on as long as it can
SpecCycle == InitCycle /\ [][NextTop]_vars /\ WF_vars(NextTop)

CycleInProgress == \E f \in BindingFrames : OnCycle(f.module, f.index)
CycleReported == stack = <<>> /\ ret.status = "Err" /\ ret.err = "cycle"

\* C2: once the check has started on a binding that is on a cycle of
\* references inside its module, the call of the driver comes to an end and
\* returns the cycle error; no binding is started more than twice
C2_CycleTerminatesWithError ==
    /\ CycleInProgress ~> CycleReported
    /\ [](\A k \in BindingKeys : Started(k) <= 2)

C2_Witness ==
    /\ CycleReported
    /\ ret.fn = "check_module"
    /\ \E i \in 1..Len(ModuleOf(ret.module).bindings) :
          OnCycle(ret.module, i) /\ Started(<<ret.module, i>>) = 2

VisOf(t) == ModuleOf(t[1]).bindings[t[2]].vis

\* C4: a lookup from module C that resolves to a binding of module M returns
\* the `symbol is private` error iff the binding is Private and C # M, and
\* returns the binding otherwise
C4_PrivateIffCrossModule ==
    (ret.fn = "check_top_level_name" /\ ret.resolved) =>
        IF VisOf(ret.target) = "Private" /\ ret.caller # ret.target[1]
        THEN ret.status = "Err" /\ ret.err = "private"
        ELSE ret.status = "Ok"

C4_Witness ==
    /\ ret.fn = "check_top_level_name" /\ ret.resolved
    /\ ret.via = "unchecked"
    /\ ret.status = "Err" /\ ret.err = "private"
    /\ ret.caller # ret.target[1]

HasBinding(m, name) == \E i \in 1..Len(ModuleOf(m).bindings) : ModuleOf(m).bindings[i].name = name
LibraryNames == {l.name : l \in prog.libraries}

\* the alternatives in the order of the claim, for a lookup that has returned
FirstMatch(r, other_stops) ==
    IF r.pre_checked THEN "checked"
    ELSE IF HasBinding(r.module, r.name) THEN "unchecked"
    ELSE IF r.name = SymSelf THEN "self"
    ELSE IF r.name = SymSuper THEN "super"
    ELSE IF other_stops /\ r.is_other_module THEN "none"
    ELSE IF r.name \in LibraryNames THEN "library"
    ELSE IF r.name \in BuiltinTypeNames THEN "builtin"
    ELSE IF HasBinding(StdRoot, r.name) THEN "prelude"
    ELSE "none"

LookupReturned == ret.fn = "check_top_level_name" /\ ret.status # "none"

\* C5 as stated: every lookup is resolved by the first alternative of the
\* six that matches, and by a name-not-found error if none matches
C5_FirstAlternative ==
    LookupReturned =>
        /\ ret.via = FirstMatch(ret, FALSE)
        /\ ret.via = "none" => (ret.status = "Err" /\ ret.err = "not_found")

\* C5 amended: as above, but a lookup in another module (is_other_module)
\* stops with name-not-found after the bindings of the module and self/super
C5_FirstAlternativeOwnModule ==
    LookupReturned =>
        /\ ret.via = FirstMatch(ret, TRUE)
        /\ ret.via = "none" => (ret.status = "Err" /\ ret.err = "not_found")

C5_Witness ==
    /\ LookupReturned
    /\ ret.name = "int" /\ ret.via = "library" /\ ~ret.is_other_module

\* C6: whenever the loop of check_module elaborates binding j, every binding
\* i < j of the module is in queued_bindings
C6_LoopInSourceOrder ==
    \A f \in BindingFrames :
        f.origin = "loop" =>
            \A i \in 1..(f.index - 1) : i \in queued_modules[f.module].queued_bindings

C6_Witness ==
    \E f \in BindingFrames :
        /\ f.origin = "loop" /\ f.index = Len(ModuleOf(f.module).bindings) /\ f.index > 1
        /\ \E g \in BindingFrames : g.origin = "name" /\ g.module = f.module

ComptimeFrames == {f \in Frames : f.fn = "check_top_level" /\ f.kind = "comptime"}

\* C7: all_complete is set only when every binding index is in
\* queued_bindings, a comptime block is checked only after all_complete is
\* set, and every comptime block is checked at most once
C7_CompleteThenComptimeOnce ==
    \A m \in Modules :
        /\ queued_modules[m].all_complete =>
              queued_modules[m].queued_bindings = 1..Len(ModuleOf(m).bindings)
        /\ queued_modules[m].queued_comptime # {} => queued_modules[m].all_complete
        /\ \A i \in 1..Len(ModuleOf(m).comptime_blocks) : ComptimeStarted(<<m, i>>) <= 1

C7_Witness ==
    \E k \in 1..Len(stack) : \E j \in (k + 1)..Len(stack) :
        /\ stack[k].fn = "check_top_level" /\ stack[k].kind = "comptime"
        /\ stack[j].fn = "check_module" /\ stack[j].module = stack[k].module

\* a binding of module m is in the middle of its elaboration
InElaboration(m) == \E f \in BindingFrames : f.module = m

\* C25: whenever a module's all_complete flag is true no binding of that
\* module is in the middle of its elaboration: a check_module that is entered
\* again for a module whose loop is still elaborating a binding does not set
\* the flag (and so does not reach the comptime blocks) before that binding
\* has finished
C25_CompleteMeansElaborated ==
    \A m \in Modules : queued_modules[m].all_complete => ~InElaboration(m)

\* the on-demand elaboration that check_name_in_module started for the pair
\* has not returned to it yet, or its result is being handed back
LookupInProgress(p) ==
    \E f \in Frames :
        f.fn = "check_top_level_name" /\ f.stage \in {"in_module", "prelude"} /\ f.target = p

\* C26: the encountered set holds only the bindings whose on-demand
\* elaboration is in progress: once check_name_in_module has returned, with
\* success, with an error of the elaboration or with a visibility error, the
\* pair it inserted is not in the set
C26_EncounteredOnlyInProgress ==
    ret.status # "Panic" => \A p \in encountered_items : LookupInProgress(p)

-----------------------------------------------------------------------------
(* Types and the type context *)

\* TyKind
Unit == <<"Unit">>
Bool == <<"Bool">>
Never == <<"Never">>
AnyInt == <<"AnyInt">>
AnyFloat == <<"AnyFloat">>
IntTy(w) == <<"Int", w>>
UIntTy(w) == <<"UInt", w>>
FloatTy(w) == <<"Float", w>>
Pointer(t, mut) == <<"Pointer", t, mut>>
MultiPointer(t, mut) == <<"MultiPointer", t, mut>>
Slice(t, mut) == <<"Slice", t, mut>>
Array(t, n) == <<"Array", t, n>>
Tuple(ts) == <<"Tuple", ts>>
Struct(id, kind, fields) == <<"Struct", id, kind, fields>>
\* the id of the binding that declares a struct type
BindingInfoId(n) == <<n>>
\* BindingInfoId::unknown(), the id of a struct type that no binding declares
unknown == <<>>
Fn(params, r, variadic) == <<"Fn", params, r, variadic>>
Type(t) == <<"Type", t>>
Var(v) == <<"Var", v>>

\* InferenceValue
Unbound == <<"Unbound">>
Bound(t) == <<"Bound", t>>

\* value_of that gives every id that is not bound the default payload
value_of_default(cx, id) ==
    IF id \in 1..Len(cx) /\ cx[id][1] = "Bound" THEN cx[id] ELSE Unbound

value_of(cx, id) == IF id \in 1..Len(cx) THEN cx[id] ELSE Unbound

bind(cx, id, t) == [cx EXCEPT ![id] = Bound(t)]

\* the result of a unification and the type context it leaves
Result(res, cx) == [res |-> res, cx |-> cx]

\* the marker of a recursion that ran out of stack
Overflow == <<"Overflow">>

Min(a, b) == IF a < b THEN a ELSE b

\* can_coerce_mut that wants the two mutabilities equal
can_coerce_mut_equal(from, to) == from = to

\* NOTE (Ron): checks that mutability rules are equal
can_coerce_mut(from, to) == from = to \/ (~from /\ to)

-----------------------------------------------------------------------------
(* normalize *)

RECURSIVE normalize_in(_, _, _, _)
RECURSIVE normalize_all(_, _, _, _)

\* normalize every type of a sequence; Overflow if one of them overflows
normalize_all(c, cx, ts, d) ==
    IF ts = <<>> THEN <<>>
    ELSE LET h == normalize_in(c, cx, Head(ts), d)
             t == normalize_all(c, cx, Tail(ts), d)
         IN IF h = Overflow \/ t = Overflow THEN Overflow ELSE <<h>> \o t

\* NormalizeTy::normalize of crate c: a variable is replaced by what it is
\* bound to, transitively; an unbound variable stays; an AnyInt or AnyFloat
\* variable becomes the kind of that name (in chili_infer the kind carries
\* the variable, in chili_check it carries nothing); composite types are
\* normalized structurally
normalize_in(c, cx, t, d) ==
    IF d = 0 THEN Overflow
    ELSE LET k == t[1] IN
    IF k = "Var" \/ (k \in {"AnyInt", "AnyFloat"} /\ Len(t) = 2)
    THEN LET val == value_of(cx, t[2]) IN
         IF val[1] = "Bound" THEN normalize_in(c, cx, val[2], d - 1)
         ELSE IF val[1] = "Unbound" THEN Var(t[2])
         ELSE IF c = "chili_infer" THEN <<val[1], t[2]>>
         ELSE <<val[1]>>
    ELSE IF k \in {"Pointer", "MultiPointer", "Slice", "Array"}
    THEN LET e == normalize_in(c, cx, t[2], d - 1) IN
         IF e = Overflow THEN Overflow ELSE <<k, e, t[3]>>
    ELSE IF k = "Type"
    THEN LET e == normalize_in(c, cx, t[2], d - 1) IN
         IF e = Overflow THEN Overflow ELSE Type(e)
    ELSE IF k = "Tuple"
    THEN LET es == normalize_all(c, cx, t[2], d - 1) IN
         IF es = Overflow THEN Overflow ELSE Tuple(es)
    ELSE IF k = "Struct"
    THEN LET es == normalize_all(c, cx, t[4], d - 1) IN
         IF es = Overflow THEN Overflow ELSE Struct(t[2], t[3], es)
    ELSE IF k = "Fn"
    THEN LET ps == normalize_all(c, cx, t[2], d - 1)
             r == normalize_in(c, cx, t[3], d - 1)
         IN IF ps = Overflow \/ r = Overflow THEN Overflow ELSE Fn(ps, r, t[4])
    ELSE t

normalize(cx, t, d) == normalize_in("chili_check", cx, t, d)

RECURSIVE occurs(_, _, _, _)
\* occurs, chili_check unify.rs lines 178-197
occurs(var, kind, cx, d) ==
    IF d = 0 THEN FALSE
    ELSE LET k == kind[1] IN
    IF k = "Var"
    THEN LET val == value_of(cx, kind[2]) IN
         IF val[1] = "Bound" THEN occurs(var, val[2], cx, d - 1)
         ELSE var = kind[2]
    ELSE IF k = "Fn"
    THEN (\E i \in 1..Len(kind[2]) : occurs(var, kind[2][i], cx, d - 1))
         \/ occurs(var, kind[3], cx, d - 1)
    ELSE IF k \in {"Pointer", "MultiPointer", "Array", "Slice"}
    THEN occurs(var, kind[2], cx, d - 1)
    ELSE IF k = "Tuple"
    THEN \E i \in 1..Len(kind[2]) : occurs(var, kind[2][i], cx, d - 1)
    ELSE IF k = "Struct"
    THEN \E i \in 1..Len(kind[4]) : occurs(var, kind[4][i], cx, d - 1)
    ELSE FALSE

(* compiler/chili_check: unify *)

RECURSIVE unify(_, _, _, _)
RECURSIVE unify_var_ty(_, _, _, _)
RECURSIVE unify_zip(_, _, _, _, _)

\* `for (t1, t2) in t1.iter().zip(t2.iter()) { t1.unify(t2, sess)?; }`
unify_zip(as, bs, i, cx, d) ==
    IF i > Min(Len(as), Len(bs)) THEN Result("Ok", cx)
    ELSE LET r == unify(as[i], bs[i], cx, d) IN
         IF r.res # "Ok" THEN r ELSE unify_zip(as, bs, i + 1, r.cx, d)

\* impl UnifyTy<TyKind> for TyKind, chili_check unify.rs lines 42-124
unify(a, b, cx, d) ==
    IF d = 0 THEN Result("Overflow", cx)
    ELSE LET ka == a[1]
             kb == b[1]
    IN
    IF ka = "Unit" /\ kb = "Unit" THEN Result("Ok", cx)
    ELSE IF ka = "Bool" /\ kb = "Bool" THEN Result("Ok", cx)
    ELSE IF ka = "AnyInt" /\ kb = "AnyInt" THEN Result("Ok", cx)
    ELSE IF ka = "AnyFloat" /\ kb = "AnyFloat" THEN Result("Ok", cx)
    ELSE IF ka \in {"Int", "UInt", "Float"} /\ kb = ka /\ a[2] = b[2] THEN Result("Ok", cx)
    ELSE IF ka \in {"Pointer", "MultiPointer", "Slice"} /\ kb = ka
    THEN IF ~can_coerce_mut(a[3], b[3]) THEN Result("Mismatch", cx)
         ELSE unify(a[2], b[2], cx, d - 1)
    ELSE IF ka = "Fn" /\ kb = "Fn"
    THEN LET r == unify(a[3], b[3], cx, d - 1) IN
         IF r.res # "Ok" THEN r
         ELSE IF Len(a[2]) # Len(b[2]) /\ ~a[4] /\ ~b[4] THEN Result("Mismatch", r.cx)
         ELSE unify_zip(a[2], b[2], 1, r.cx, d - 1)
    ELSE IF ka = "Array" /\ kb = "Array"
    THEN IF a[3] # b[3] THEN Result("Mismatch", cx)
         ELSE unify(a[2], b[2], cx, d - 1)
    ELSE IF ka = "Tuple" /\ kb = "Tuple"
    THEN IF Len(a[2]) # Len(b[2]) THEN Result("Mismatch", cx)
         ELSE unify_zip(a[2], b[2], 1, cx, d - 1)
    ELSE IF ka = "Struct" /\ kb = "Struct"
    THEN IF a[2] = b[2] THEN Result("Ok", cx)
         ELSE IF Len(a[4]) # Len(b[4]) \/ a[3] # b[3] THEN Result("Mismatch", cx)
         ELSE unify_zip(a[4], b[4], 1, cx, d - 1)
    ELSE IF ka = "Type" /\ kb = "Type" THEN unify(a[2], b[2], cx, d - 1)
    ELSE IF ka = "Type" THEN unify(a[2], b, cx, d - 1)
    ELSE IF kb = "Type" THEN unify(a, b[2], cx, d - 1)
    ELSE IF ka = "Var" THEN unify_var_ty(a[2], b, cx, d - 1)
    ELSE IF kb = "Var" THEN unify_var_ty(b[2], a, cx, d - 1)
    ELSE IF ka = "Never" \/ kb = "Never" THEN Result("Ok", cx)
    ELSE Result("Mismatch", cx)

\* unify_var_ty, chili_check unify.rs lines 126-176
unify_var_ty(var, other, cx, d) ==
    IF d = 0 THEN Result("Overflow", cx)
    ELSE LET val == value_of(cx, var) IN
    IF val[1] = "Bound" THEN unify(val[2], other, cx, d - 1)
    ELSE LET o == normalize(cx, other, d - 1) IN
    IF o = Overflow THEN Result("Overflow", cx)
    ELSE IF val[1] = "AnyInt"
    THEN IF o[1] \in {"AnyInt", "Int", "UInt", "AnyFloat", "Float"}
         THEN Result("Ok", bind(cx, var, o))
         ELSE IF o[1] = "Var" THEN Result("Ok", bind(cx, o[2], Var(var)))
         ELSE Result("Mismatch", cx)
    ELSE IF val[1] = "AnyFloat"
    THEN IF o[1] \in {"AnyFloat", "Float"}
         THEN Result("Ok", bind(cx, var, o))
         ELSE IF o[1] = "Var" THEN Result("Ok", bind(cx, o[2], Var(var)))
         ELSE Result("Mismatch", cx)
    ELSE IF Var(var) # o
         THEN IF occurs(var, o, cx, d - 1) THEN Result("Occurs", cx)
              ELSE Result("Ok", bind(cx, var, o))
         ELSE Result("Ok", cx)

-----------------------------------------------------------------------------
(* compiler/chili_infer: unify *)

\* occurs, chili_infer unify.rs lines 174-191: the same walk
occurs_infer(var, kind, cx, d) == occurs(var, kind, cx, d)

normalize_infer(cx, t, d) == normalize_in("chili_infer", cx, t, d)

RECURSIVE unify_infer(_, _, _, _)
RECURSIVE unify_var_ty_infer(_, _, _, _)
RECURSIVE unify_zip_infer(_, _, _, _, _)

unify_zip_infer(as, bs, i, cx, d) ==
    IF i > Min(Len(as), Len(bs)) THEN Result("Ok", cx)
    ELSE LET r == unify_infer(as[i], bs[i], cx, d) IN
         IF r.res # "Ok" THEN r ELSE unify_zip_infer(as, bs, i + 1, r.cx, d)

\* impl UnifyTy<TyKind> for TyKind, chili_infer unify.rs lines 37-120
unify_infer(a, b, cx, d) ==
    IF d = 0 THEN Result("Overflow", cx)
    ELSE LET ka == a[1]
             kb == b[1]
    IN
    IF ka = "Unit" /\ kb = "Unit" THEN Result("Ok", cx)
    ELSE IF ka = "Bool" /\ kb = "Bool" THEN Result("Ok", cx)
    ELSE IF ka \in {"AnyInt", "AnyFloat"} /\ kb \in {"AnyInt", "AnyFloat"} THEN Result("Ok", cx)
    ELSE IF ka \in {"Int", "UInt", "Float"} /\ kb = ka /\ a[2] = b[2] THEN Result("Ok", cx)
    ELSE IF ka \in {"Pointer", "MultiPointer", "Slice"} /\ kb = ka
    THEN IF ~can_coerce_mut(a[3], b[3]) THEN Result("Mismatch", cx)
         ELSE unify_infer(a[2], b[2], cx, d - 1)
    ELSE IF ka = "Fn" /\ kb = "Fn"
    THEN LET r == unify_infer(a[3], b[3], cx, d - 1) IN
         IF r.res # "Ok" THEN r
         ELSE IF Len(a[2]) # Len(b[2]) /\ ~a[4] /\ ~b[4] THEN Result("Mismatch", r.cx)
         ELSE unify_zip_infer(a[2], b[2], 1, r.cx, d - 1)
    ELSE IF ka = "Array" /\ kb = "Array"
    THEN IF a[3] # b[3] THEN Result("Mismatch", cx)
         ELSE unify_infer(a[2], b[2], cx, d - 1)
    ELSE IF ka = "Tuple" /\ kb = "Tuple"
    THEN IF Len(a[2]) # Len(b[2]) THEN Result("Mismatch", cx)
         ELSE unify_zip_infer(a[2], b[2], 1, cx, d - 1)
    ELSE IF ka = "Struct" /\ kb = "Struct"
    THEN IF a[2] = b[2] THEN Result("Ok", cx)
         ELSE IF Len(a[4]) # Len(b[4]) \/ a[3] # b[3] THEN Result("Mismatch", cx)
         ELSE unify_zip_infer(a[4], b[4], 1, cx, d - 1)
    ELSE IF ka = "Type" /\ kb = "Type" THEN unify_infer(a[2], b[2], cx, d - 1)
    ELSE IF ka = "Var" THEN unify_var_ty_infer(a[2], b, cx, d - 1)
    ELSE IF kb = "Var" THEN unify_var_ty_infer(b[2], a, cx, d - 1)
    ELSE IF ka = "Never" \/ kb = "Never" THEN Result("Ok", cx)
    ELSE Result("Mismatch", cx)

\* unify_var_ty, chili_infer unify.rs lines 122-172
unify_var_ty_infer(var, other, cx, d) ==
    IF d = 0 THEN Result("Overflow", cx)
    ELSE LET val == value_of(cx, var) IN
    IF val[1] = "Bound" THEN unify_infer(val[2], other, cx, d - 1)
    ELSE LET other_kind == normalize_infer(cx, other, d - 1) IN
    IF other_kind = Overflow THEN Result("Overflow", cx)
    ELSE IF val[1] = "AnyInt"
    THEN IF other_kind[1] \in {"Int", "UInt", "Float"}
         THEN Result("Ok", bind(cx, var, other))
         ELSE IF other_kind[1] \in {"AnyInt", "AnyFloat", "Var"}
         THEN IF other_kind[2] # var
              THEN Result("Ok", bind(cx, other_kind[2], Var(var)))
              ELSE Result("Ok", cx)
         ELSE Result("Mismatch", cx)
    ELSE IF val[1] = "AnyFloat"
    THEN IF other_kind[1] = "Float"
         THEN Result("Ok", bind(cx, var, other))
         ELSE IF other_kind[1] \in {"AnyInt", "AnyFloat", "Var"}
         THEN IF other_kind[2] # var
              THEN Result("Ok", bind(cx, other_kind[2], Var(var)))
              ELSE Result("Ok", cx)
         ELSE Result("Mismatch", cx)
    ELSE IF Var(var) # other_kind
         THEN IF occurs_infer(var, other_kind, cx, d - 1) THEN Result("Occurs", cx)
              ELSE Result("Ok", bind(cx, var, other))
         ELSE Result("Ok", cx)

-----------------------------------------------------------------------------
(* The type-checking session: allocation of type ids and unification *)

\* the most type ids a session allocates
MaxTypes == 2

\* the deepest recursion the stack allows
MaxDepth == 24

Crates == {"chili_check", "chili_infer"}

TypeIds == 1..Len(tycx)

\* the types without a component that the session unifies; a kind that
\* carries a variable is the kind of a variable with that payload
LeafTypes ==
    {Never, IntTy(32), FloatTy(64)}
        \cup {Var(i) : i \in TypeIds}
        \cup (IF crate = "chili_check" THEN {AnyInt, AnyFloat}
              ELSE {<<tycx[i][1], i>> : i \in {j \in TypeIds : tycx[j] \in {AnyInt, AnyFloat}}})

\* the types with components that the session unifies, over the first variable
CompositeTypes ==
    IF tycx = <<>> THEN {}
    ELSE {Type(Var(1)), Pointer(Type(Var(1)), FALSE), Pointer(Var(1), FALSE),
          Pointer(IntTy(32), TRUE), Slice(Var(1), TRUE), Slice(IntTy(32), TRUE),
          Tuple(<<Var(1), Bool>>), Tuple(<<IntTy(32), IntTy(32)>>),
          Fn(<<>>, Var(1), FALSE), Fn(<<Bool>>, IntTy(32), FALSE),
          Struct(BindingInfoId(1), "Struct", <<Var(1), Bool>>),
          Struct(BindingInfoId(1), "Struct", <<IntTy(32), Bool>>),
          Struct(BindingInfoId(2), "Struct", <<FloatTy(64), IntTy(32)>>),
          Struct(unknown, "Struct", <<Bool>>), Struct(unknown, "PackedStruct", <<IntTy(32)>>)}

\* the types with components that the session unifies with a variable or
\* with never
VarComposites ==
    CompositeTypes \cap
        {Type(Var(1)), Pointer(Type(Var(1)), FALSE), Pointer(Var(1), FALSE),
         Tuple(<<Var(1), Bool>>), Fn(<<Bool>>, IntTy(32), FALSE)}

\* the pairs of types the session unifies: a variable or never against a
\* type, and two types of one constructor
UnifyInputs ==
    {p \in LeafTypes \X LeafTypes : p[1][1] \in {"Var", "Never"} \/ p[2][1] \in {"Var", "Never"}}
        \cup {Never, Var(1)} \X VarComposites
        \cup VarComposites \X {Never, Var(1)}
        \cup {p \in CompositeTypes \X CompositeTypes : p[1][1] = p[2][1] /\ p[1] # p[2]}

\* the session is between two calls of unify
Alive == crate \in Crates /\ last = NoLast

\* TyCtx::var
var ==
    /\ Alive
    /\ Len(tycx) < MaxTypes
    /\ tycx' = Append(tycx, Unbound)
    /\ allocated' = Append(allocated, Unbound)
    /\ UNCHANGED <<crate, last>>
    /\ UNCHANGED notTyVars

\* TyCtx::anyint
anyint ==
    /\ Alive
    /\ Len(tycx) < MaxTypes
    /\ tycx' = Append(tycx, AnyInt)
    /\ allocated' = Append(allocated, AnyInt)
    /\ UNCHANGED <<crate, last>>
    /\ UNCHANGED notTyVars

\* TyCtx::anyfloat
anyfloat ==
    /\ Alive
    /\ Len(tycx) < MaxTypes
    /\ tycx' = Append(tycx, AnyFloat)
    /\ allocated' = Append(allocated, AnyFloat)
    /\ UNCHANGED <<crate, last>>
    /\ UNCHANGED notTyVars

\* a call of unify of the session's crate; a recursion that runs out of stack
\* ends the process
Unify(a, b) ==
    /\ Alive
    /\ LET r == IF crate = "chili_check" THEN unify(a, b, tycx, MaxDepth)
                ELSE unify_infer(a, b, tycx, MaxDepth)
       IN /\ tycx' = IF r.res = "Overflow" THEN tycx ELSE r.cx
          /\ last' = [a |-> a, b |-> b, res |-> r.res, pre |-> tycx]
    /\ UNCHANGED <<crate, allocated>>
    /\ UNCHANGED notTyVars

\* the caller of unify takes the result: `?` hands an error on, Ok goes on;
\* after a stack overflow there is no caller left
UnifyReturn ==
    /\ last # NoLast
    /\ last.res # "Overflow"
    /\ last' = NoLast
    /\ UNCHANGED <<crate, tycx, allocated>>
    /\ UNCHANGED notTyVars

\* no workspace is being checked
TopIdle ==
    /\ PatIdle
    /\ prog = <<>>
    /\ queued_modules = <<>>
    /\ encountered_items = {}
    /\ global_scopes = <<>>
    /\ stack = <<>>
    /\ ret = NoRet
    /\ started = <<>>
    /\ comptime_started = <<>>
    /\ calls = 0

InitUnify ==
    /\ TopIdle
    /\ SysIdle
    /\ call = NoCall
    /\ crate \in Crates
    /\ tycx = <<>>
    /\ allocated = <<>>
    /\ last = NoLast

NextUnify ==
    \/ var
    \/ anyint
    \/ anyfloat
    \/ \E p \in UnifyInputs : Unify(p[1], p[2])
    \/ UnifyReturn

SpecUnify == InitUnify /\ [][NextUnify]_vars

-----------------------------------------------------------------------------
(* Properties of the unifier *)

RECURSIVE TypeVars(_)
RECURSIVE TypeVarsOfAll(_)
TypeVarsOfAll(ts) == IF ts = <<>> THEN {} ELSE TypeVars(Head(ts)) \cup TypeVarsOfAll(Tail(ts))

\* the type ids a type mentions, under any constructor
TypeVars(t) ==
    LET k == t[1] IN
    IF k = "Var" THEN {t[2]}
    ELSE IF k \in {"AnyInt", "AnyFloat"} THEN (IF Len(t) = 2 THEN {t[2]} ELSE {})
    ELSE IF k \in {"Pointer", "MultiPointer", "Slice", "Array", "Type"} THEN TypeVars(t[2])
    ELSE IF k = "Tuple" THEN TypeVarsOfAll(t[2])
    ELSE IF k = "Struct" THEN TypeVarsOfAll(t[4])
    ELSE IF k = "Fn" THEN TypeVarsOfAll(t[2]) \cup TypeVars(t[3])
    ELSE {}

\* the ids mentioned by the type an id is bound to
BoundVars(cx, i) == IF cx[i][1] = "Bound" THEN TypeVars(cx[i][2]) ELSE {}

RECURSIVE Chased(_, _, _)
\* the ids reached from the ids of S by chasing Bound payloads n times or less
Chased(cx, S, n) ==
    IF n = 0 THEN S
    ELSE Chased(cx, S \cup UNION {BoundVars(cx, i) : i \in S}, n - 1)

\* id i is bound to a type that contains i, directly or through Bound ids
Cyclic(cx, i) == i \in Chased(cx, BoundVars(cx, i), Len(cx))

\* C3: after any sequence of unify calls no type id is bound to a type that
\* contains that same id, directly or through Bound variables and any type
\* constructor, the Type wrapper included
C3_NoIdBoundToItself == \A i \in TypeIds : ~Cyclic(tycx, i)

\* a call of unify has returned
Unified == last # NoLast

\* C8: unify(Never, T) and unify(T, Never) return Ok for every type T, a
\* variable of any payload included
C8_NeverUnifiesWithAll ==
    (Unified /\ (last.a = Never \/ last.b = Never)) => last.res = "Ok"

\* the call of unify_var_ty that the last call of unify made at once, as
\* <<var, other>>, or <<>> when it made none: the Type arms of chili_check
\* come before the Var arms
VarCall ==
    IF ~Unified THEN <<>>
    ELSE IF crate = "chili_check" /\ (last.a[1] = "Type" \/ last.b[1] = "Type") THEN <<>>
    ELSE IF last.a[1] = "Var" THEN <<last.a[2], last.b>>
    ELSE IF last.b[1] = "Var" THEN <<last.b[2], last.a>>
    ELSE <<>>

\* what the other type of that call normalized to
VarCallOther == normalize_in(crate, last.pre, VarCall[2], MaxDepth)

\* the last call was unify_var_ty on a variable of payload AnyFloat
AnyFloatCall ==
    /\ VarCall # <<>>
    /\ value_of(last.pre, VarCall[1]) = AnyFloat
    /\ VarCallOther # Overflow

\* C9: unify_var_ty on an AnyFloat variable returns Ok when the other type
\* normalizes to a Float type, AnyFloat, AnyInt or an unbound variable, and
\* Mismatch for every other type
C9_AnyFloatAccepts ==
    AnyFloatCall =>
        IF VarCallOther[1] \in {"Float", "AnyFloat", "AnyInt", "Var"}
        THEN last.res = "Ok"
        ELSE last.res = "Mismatch"

RECURSIVE Resolved(_, _, _)
\* what id i resolves to by following Bound payloads: the payload of the
\* variable the chain ends in, or the type it ends in
Resolved(cx, i, n) ==
    IF cx[i][1] # "Bound" THEN cx[i]
    ELSE IF cx[i][2][1] = "Var" /\ n > 0 THEN Resolved(cx, cx[i][2][2], n - 1)
    ELSE cx[i][2]

StructCall == Unified /\ last.a[1] = "Struct" /\ last.b[1] = "Struct"

\* what unifying the fields of the two structs pairwise gives from the
\* context of before the call
FieldsUnified ==
    IF crate = "chili_check" THEN unify_zip(last.a[4], last.b[4], 1, last.pre, MaxDepth)
    ELSE unify_zip_infer(last.a[4], last.b[4], 1, last.pre, MaxDepth)

\* C11: unify on two struct types succeeds without comparing fields only when
\* both carry the id of the same declared struct; any other pair, two
\* anonymous structs included, is a Mismatch when the field counts or the
\* kinds differ, and otherwise succeeds iff the fields unify pairwise
C11_StructsNominalOrByFields ==
    StructCall =>
        IF last.a[2] = last.b[2] /\ last.a[2] # unknown
        THEN last.res = "Ok" /\ tycx = last.pre
        ELSE IF Len(last.a[4]) # Len(last.b[4]) \/ last.a[3] # last.b[3]
        THEN last.res = "Mismatch"
        ELSE last.res = FieldsUnified.res

\* the last call of unify was on two pointers, two multi-pointers or two slices
PointerCall ==
    /\ Unified
    /\ last.a[1] \in {"Pointer", "MultiPointer", "Slice"}
    /\ last.b[1] = last.a[1]

\* what unifying the element types of the two gives from the context of
\* before the call
ElementsUnified ==
    IF crate = "chili_check" THEN unify(last.a[2], last.b[2], last.pre, MaxDepth - 1)
    ELSE unify_infer(last.a[2], last.b[2], last.pre, MaxDepth - 1)

C24_FailedUnifyKeepsContext ==
    (Unified /\ last.res \in {"Mismatch", "Occurs"}) => tycx = last.pre

-----------------------------------------------------------------------------
(* src/infer: coercion of the nodes of a failed unification *)

\* Type::Infer
Infer(id, kind) == <<"Infer", id, kind>>

\* the sizes the checker is configured with: a 32 bit and a 64 bit target
WordSizes == {4, 8}

\* SizeOf::size_of of an IntType, UintType or FloatType, in bytes
size_of(kind, word_size) ==
    IF kind \in {"I8", "U8"} THEN 1
    ELSE IF kind \in {"I16", "U16", "F16"} THEN 2
    ELSE IF kind \in {"I32", "U32", "F32"} THEN 4
    ELSE IF kind \in {"I64", "U64", "F64"} THEN 8
    ELSE word_size

RECURSIVE normalize_type(_, _)
\* Normalize::normalize: Bound payloads are chased, an AnyInt or AnyFloat id
\* gives Infer(id, _), an unbound id gives Var(id), pointers, arrays and
\* slices are normalized structurally
normalize_type(cx, t) ==
    LET k == t[1] IN
    IF k \in {"Var", "Infer"}
    THEN LET val == value_of(cx, t[2]) IN
         IF val[1] = "Bound" THEN normalize_type(cx, val[2])
         ELSE IF val[1] = "Unbound" THEN Var(t[2])
         ELSE Infer(t[2], val[1])
    ELSE IF k \in {"Pointer", "Array", "Slice"} THEN <<k, normalize_type(cx, t[2]), t[3]>>
    ELSE t

\* impl Coerce for Type, coerce.rs lines 20-112
coerce(self, to, word_size) ==
    LET l == self[1]
        r == to[1]
    IN
    IF l = "Infer" /\ r = "Infer" /\ self[3] = "AnyInt" /\ to[3] = "AnyFloat" THEN "CoerceToRight"
    ELSE IF l = "Infer" /\ r = "Infer" /\ self[3] = "AnyFloat" /\ to[3] = "AnyInt" THEN "CoerceToLeft"
    ELSE IF (l \in {"Int", "UInt"} /\ r \in {"Int", "UInt"}) \/ (l = "Float" /\ r = "Float")
    THEN IF size_of(self[2], word_size) <= size_of(to[2], word_size)
         THEN "CoerceToRight" ELSE "CoerceToLeft"
    ELSE IF l = "Pointer" /\ r = "Pointer" /\ can_coerce_mut(self[3], to[3])
    THEN IF self[2][1] = "Array" /\ to[2][1] = "Slice"
         THEN IF self[2][2] = to[2][2] THEN "CoerceToRight" ELSE "NoCoercion"
         ELSE "NoCoercion"
    ELSE IF l = "Pointer" /\ r = "Pointer" /\ can_coerce_mut(self[3], to[3])
    THEN IF self[2][1] = "Array"
         THEN IF self[2][2] = to[2] THEN "CoerceToRight" ELSE "NoCoercion"
         ELSE "NoCoercion"
    ELSE "NoCoercion"

\* hir::Node: a node of some type id, and the cast of a node to a type id
Node(ty) == <<"Node", ty>>
Cast(value, ty) == <<"Cast", value, ty>>
\* hir::Node::ty
ty_of(node) == node[Len(node)]

\* TypeCtx::bound: the id of a Var or Infer type, or a new id bound to the type
bound(cx, kind) ==
    IF kind[1] \in {"Var", "Infer"} THEN [cx |-> cx, id |-> kind[2]]
    ELSE [cx |-> Append(cx, Bound(kind)), id |-> Len(cx) + 1]

\* coerce_node that puts a node of the target type in place of the node
coerce_node_replaced(cx, node, to) ==
    LET b == bound(cx, to) IN [cx |-> b.cx, node |-> Node(b.id)]

\* coerce_node, coerce.rs lines 114-120
coerce_node(cx, node, to) ==
    LET b == bound(cx, to) IN [cx |-> b.cx, node |-> Cast(node, b.id)]

\* the outcome of or_coerce and of or_coerce_into_ty
Coerced(result, left, right, cx) == [result |-> result, left |-> left, right |-> right, cx |-> cx]

\* impl OrCoerce for UnifyTypeResult, coerce.rs lines 132-158
or_coerce(self, left, right, cx, word_size) ==
    IF self = "Ok" THEN Coerced("Ok", left, right, cx)
    ELSE LET left_ty == normalize_type(cx, Var(ty_of(left)))
             right_ty == normalize_type(cx, Var(ty_of(right)))
             c == coerce(left_ty, right_ty, word_size)
         IN IF c = "CoerceToLeft"
            THEN LET n == coerce_node(cx, right, left_ty) IN Coerced("Ok", left, n.node, n.cx)
            ELSE IF c = "CoerceToRight"
            THEN LET n == coerce_node(cx, left, right_ty) IN Coerced("Ok", n.node, right, n.cx)
            ELSE Coerced(self, left, right, cx)

\* impl OrCoerceIntoTy for UnifyTypeResult, coerce.rs lines 170-192: the
\* right side is a type, not a node
or_coerce_into_ty(self, node, ty, cx, word_size) ==
    IF self = "Ok" THEN Coerced("Ok", node, ty, cx)
    ELSE LET node_ty == normalize_type(cx, Var(ty_of(node)))
             to == normalize_type(cx, ty)
             c == coerce(node_ty, to, word_size)
         IN IF c = "CoerceToRight"
            THEN LET n == coerce_node(cx, node, to) IN Coerced("Ok", n.node, ty, n.cx)
            ELSE Coerced(self, node, ty, cx)

\* the types of the two sides of a unification
SideTypes ==
    {Bool, IntTy("I8"), IntTy("I64"), IntTy("Int"), UIntTy("U8"), UIntTy("Uint"),
     FloatTy("F32"), FloatTy("Float"),
     Pointer(Bool, FALSE), Pointer(Bool, TRUE),
     Pointer(Array(Bool, 2), FALSE), Pointer(Array(Bool, 2), TRUE),
     Pointer(Slice(Bool, FALSE), FALSE), Pointer(Slice(Bool, FALSE), TRUE),
     Pointer(Array(IntTy("I8"), 2), FALSE)}

\* the payloads of the type ids of the two sides
SidePayloads == {Unbound, AnyInt, AnyFloat} \cup {Bound(t) : t \in SideTypes}

\* the results of the unification before
UnifyResults == {"Ok", "Mismatch", "Occurs"}

\* a check session of src/infer: the type ids 1 and 2 are the types of the
\* left and the right side
InitInfer ==
    /\ TopIdle
    /\ SysIdle
    /\ call = NoCall
    /\ crate = "artc"
    /\ tycx \in {<<l, r>> : l \in SidePayloads, r \in SidePayloads}
    /\ allocated = tycx
    /\ last = NoLast

\* unify(left, right).or_coerce(left, right, tcx, word_size)
OrCoerce(self, word_size) ==
    /\ crate = "artc"
    /\ call = NoCall
    /\ LET r == or_coerce(self, Node(1), Node(2), tycx, word_size) IN
          /\ call' = [fn |-> "or_coerce",
                      in |-> [self |-> self, left |-> Node(1), right |-> Node(2),
                              word_size |-> word_size, cx |-> tycx],
                      out |-> [result |-> r.result, left |-> r.left, right |-> r.right]]
          /\ tycx' = r.cx
          /\ allocated' = allocated \o SubSeq(r.cx, Len(tycx) + 1, Len(r.cx))
    /\ UNCHANGED <<crate, last>>
    /\ UNCHANGED <<topVars, patVars, sysVars>>

\* unify(node, ty).or_coerce_into_ty(node, ty, tcx, word_size)
OrCoerceIntoTy(self, word_size) ==
    /\ crate = "artc"
    /\ call = NoCall
    /\ LET r == or_coerce_into_ty(self, Node(1), Var(2), tycx, word_size) IN
          /\ call' = [fn |-> "or_coerce_into_ty",
                      in |-> [self |-> self, left |-> Node(1), right |-> Var(2),
                              word_size |-> word_size, cx |-> tycx],
                      out |-> [result |-> r.result, left |-> r.left, right |-> r.right]]
          /\ tycx' = r.cx
          /\ allocated' = allocated \o SubSeq(r.cx, Len(tycx) + 1, Len(r.cx))
    /\ UNCHANGED <<crate, last>>
    /\ UNCHANGED <<topVars, patVars, sysVars>>

-----------------------------------------------------------------------------
(* src/infer: make_concrete *)

\* Type::Function with its varargs, Type::Str
Function(params, return_type, varargs) == <<"Function", params, return_type, varargs>>
Str(t) == <<"Str", t>>
\* FunctionTypeVarargs: none, without a type, with a type
NoVarargs == <<"None">>
Varargs == <<"Some">>
TypedVarargs(t) == <<"Some", t>>

\* what make_concrete gives: the type context and the type
Concrete(cx, ty) == [cx |-> cx, ty |-> ty]

\* the two Infer arms of make_concrete that bind the id and leave the type
make_concrete_infer_bound_only(cx, ty) ==
    LET concrete == IF ty[3] = "AnyInt" THEN IntTy("Int") ELSE FloatTy("Float")
    IN Concrete(bind(cx, ty[2], concrete), ty)

\* the two Infer arms of make_concrete, type_ctx.rs lines 100-110
make_concrete_infer(cx, ty) ==
    LET concrete == IF ty[3] = "AnyInt" THEN IntTy("Int") ELSE FloatTy("Float")
    IN Concrete(bind(cx, ty[2], concrete), concrete)

RECURSIVE make_concrete(_, _)
RECURSIVE make_concrete_each(_, _)

\* iter_mut().for_each(make_concrete): the types of a sequence, in order
make_concrete_each(cx, tys) ==
    IF tys = <<>> THEN Concrete(cx, <<>>)
    ELSE LET h == make_concrete(cx, Head(tys))
             t == make_concrete_each(h.cx, Tail(tys))
         IN Concrete(t.cx, <<h.ty>> \o t.ty)

\* TypeCtx::make_concrete, type_ctx.rs lines 98-142
make_concrete(cx, ty) ==
    LET k == ty[1] IN
    IF k = "Infer" THEN make_concrete_infer(cx, ty)
    ELSE IF k = "Function"
    THEN LET ps == make_concrete_each(cx, ty[2])
             r == make_concrete(ps.cx, ty[3])
             v == IF Len(ty[4]) = 2 THEN make_concrete(r.cx, ty[4][2]) ELSE Concrete(r.cx, <<>>)
         IN Concrete(v.cx, Function(ps.ty, r.ty, IF Len(ty[4]) = 2 THEN TypedVarargs(v.ty) ELSE ty[4]))
    ELSE IF k \in {"Pointer", "Array", "Slice"}
    THEN LET e == make_concrete(cx, ty[2]) IN Concrete(e.cx, <<k, e.ty, ty[3]>>)
    ELSE IF k \in {"Str", "Type"}
    THEN LET e == make_concrete(cx, ty[2]) IN Concrete(e.cx, <<k, e.ty>>)
    ELSE IF k = "Tuple"
    THEN LET es == make_concrete_each(cx, ty[2]) IN Concrete(es.cx, Tuple(es.ty))
    ELSE IF k = "Struct"
    THEN LET es == make_concrete_each(cx, ty[4]) IN Concrete(es.cx, Struct(ty[2], ty[3], es.ty))
    ELSE Concrete(cx, ty)

\* the types without components handed to make_concrete: the type ids of
\* the session as variables and as integer and float literals, and ground
\* types
ConcreteLeaves ==
    {Var(i) : i \in TypeIds}
        \cup {Infer(i, k) : i \in TypeIds, k \in {"AnyInt", "AnyFloat"}}
        \cup {Bool, IntTy("I8")}

\* the types handed to make_concrete
ConcreteInputs ==
    ConcreteLeaves
        \cup {Pointer(t, FALSE) : t \in ConcreteLeaves}
        \cup {Array(Slice(t, FALSE), 2) : t \in ConcreteLeaves}
        \cup {Type(Str(t)) : t \in ConcreteLeaves}
        \cup {Tuple(<<t, u>>) : t \in ConcreteLeaves, u \in ConcreteLeaves}
        \cup {Struct(unknown, "Struct", <<t, Pointer(Infer(2, "AnyFloat"), TRUE)>>) : t \in ConcreteLeaves}
        \cup {Function(<<t>>, u, v) : t \in ConcreteLeaves, u \in {Bool, Infer(2, "AnyFloat")},
                                      v \in {NoVarargs, Varargs, TypedVarargs(Infer(1, "AnyInt"))}}

\* tcx.make_concrete(&mut ty)
MakeConcrete(ty) ==
    /\ crate = "artc"
    /\ call = NoCall
    /\ LET r == make_concrete(tycx, ty) IN
          /\ call' = [fn |-> "make_concrete", in |-> [ty |-> ty, cx |-> tycx], out |-> [ty |-> r.ty]]
          /\ tycx' = r.cx
    /\ UNCHANGED <<crate, allocated, last>>
    /\ UNCHANGED <<topVars, patVars, sysVars>>

NextInfer ==
    \/ \E self \in UnifyResults, word_size \in WordSizes : OrCoerce(self, word_size)
    \/ \E self \in UnifyResults, word_size \in WordSizes : OrCoerceIntoTy(self, word_size)
    \/ \E ty \in ConcreteInputs : MakeConcrete(ty)

SpecInfer == InitInfer /\ [][NextInfer]_vars

-----------------------------------------------------------------------------
(* Properties of the coercion *)

\* or_coerce or or_coerce_into_ty was called after a failed unification
CoerceCall == call.fn \in {"or_coerce", "or_coerce_into_ty"} /\ call.in.self # "Ok"

\* the normalized types of the two sides of that call
LeftTy == normalize_type(call.in.cx, Var(ty_of(call.in.left)))
RightTy == normalize_type(call.in.cx, Var(2))

\* what coerce answered in that call
Coercion == coerce(LeftTy, RightTy, call.in.word_size)

\* C13: coerce(Pointer(Array(T, n), m1), Pointer(T, m2)) is CoerceToRight for
\* every T, n and mutabilities with can_coerce_mut(m1, m2)
C13_ArrayPointerToElementPointer ==
    (/\ CoerceCall
     /\ LeftTy[1] = "Pointer" /\ RightTy[1] = "Pointer"
     /\ LeftTy[2][1] = "Array" /\ LeftTy[2][2] = RightTy[2]
     /\ can_coerce_mut(LeftTy[3], RightTy[3]))
        => Coercion = "CoerceToRight"

\* C14: or_coerce changes a node only after a failed unification for which
\* coerce gives a direction: then the node of the coerced side, and only
\* it, becomes a Cast of the original node to the normalized type of the
\* other side and Ok is returned; otherwise the nodes and the type context
\* stay as they are and the result of the unification is returned
C14_OrCoerceCastsOneSide ==
    call.fn = "or_coerce" =>
        IF call.in.self = "Ok" \/ Coercion = "NoCoercion"
        THEN /\ call.out.left = call.in.left
             /\ call.out.right = call.in.right
             /\ tycx = call.in.cx
             /\ call.out.result = call.in.self
        ELSE IF Coercion = "CoerceToLeft"
        THEN /\ call.out.left = call.in.left
             /\ call.out.right[1] = "Cast"
             /\ call.out.right[2] = call.in.right
             /\ normalize_type(tycx, Var(ty_of(call.out.right))) = LeftTy
             /\ call.out.result = "Ok"
        ELSE /\ call.out.right = call.in.right
             /\ call.out.left[1] = "Cast"
             /\ call.out.left[2] = call.in.left
             /\ normalize_type(tycx, Var(ty_of(call.out.left))) = RightTy
             /\ call.out.result = "Ok"

\* a u8 on the left met an i64 on the right after a Mismatch: the left node
\* is cast to a new type id bound to i64
C14_Witness ==
    /\ call.fn = "or_coerce"
    /\ call.in.self = "Mismatch"
    /\ LeftTy = UIntTy("U8") /\ RightTy = IntTy("I64")
    /\ call.out.left = Cast(Node(1), 3)
    /\ tycx[3] = Bound(IntTy("I64"))
    /\ call.out.result = "Ok"

-----------------------------------------------------------------------------
(* compiler/chili_check: can_cast *)

\* impl CanCast<TyKind> for TyKind, cast.rs lines 8-77
can_cast(self, to) ==
    LET f == self[1]
        t == to[1]
    IN
    \/ self = to
    \/ IF f = "Bool" /\ t \in {"Int", "UInt"} THEN TRUE
       ELSE IF f = "AnyInt" /\ t \in {"AnyInt", "Int", "UInt", "AnyFloat", "Float"} THEN TRUE
       ELSE IF f = "Int" /\ t \in {"Int", "UInt", "AnyFloat", "Float"} THEN TRUE
       ELSE IF f = "UInt" /\ t \in {"Int", "UInt", "Float"} THEN TRUE
       ELSE IF f = "AnyFloat" /\ t \in {"AnyInt", "Int", "UInt", "AnyFloat", "Float"} THEN TRUE
       ELSE IF f = "Float" /\ t \in {"Int", "UInt", "Float"} THEN TRUE
       ELSE IF f = "Pointer" /\ t = "Pointer" THEN TRUE
       ELSE IF f = "Pointer" /\ t \in {"Int", "UInt"} THEN TRUE
       ELSE IF f \in {"Int", "UInt"} /\ t = "Pointer" THEN TRUE
       ELSE IF f = "Pointer" /\ t = "MultiPointer" /\ self[2] = to[2]
               /\ can_coerce_mut(self[3], to[3]) THEN TRUE
       ELSE IF f = "MultiPointer" /\ t = "Pointer" /\ self[2] = to[2]
               /\ can_coerce_mut(to[3], self[3]) THEN TRUE
       ELSE IF f = "Pointer" /\ t = "MultiPointer" /\ can_coerce_mut(self[3], to[3])
       THEN self[2][1] = "Array" /\ self[2][2] = to[2]
       ELSE IF f = "Pointer" /\ t = "Slice" /\ can_coerce_mut(self[3], to[3])
       THEN self[2][1] = "Array" /\ self[2][2] = to[2]
       ELSE IF f = "Var" \/ t = "Var" THEN TRUE
       ELSE FALSE

\* the types an `as` expression is checked with
CastTypes ==
    {Unit, Bool, <<"AnyInt", 1>>, <<"AnyFloat", 2>>, Var(3),
     IntTy(8), IntTy(64), UIntTy(8), UIntTy(64), FloatTy(32), FloatTy(64),
     Pointer(Bool, FALSE), Pointer(Bool, TRUE), Pointer(Array(Bool, 2), TRUE),
     MultiPointer(Bool, FALSE), MultiPointer(Bool, TRUE), Slice(Bool, TRUE)}

-----------------------------------------------------------------------------
(* src/check/const_fold/binary.rs: folding a binary operation on constants *)

\* ConstValue::Int(i64), ConstValue::Uint(u64) and ConstValue::Bool; the
\* integers of the model are small, all of them fit both widths
ConstInt(v) == <<"Int", v>>
ConstUint(v) == <<"Uint", v>>
ConstBool(v) == <<"Bool", v>>

\* Option::None of a checked operation
NoResult == <<>>

\* DiagnosticResult<ConstValue>
FoldOk(value) == <<"Ok", value>>
FoldErr(message) == <<"Err", message>>

\* the bits of a u32 shift amount that a 64-bit checked shift accepts
ShiftBits == 64

\* integer division and remainder of Rust: the quotient is rounded towards zero
trunc_div(a, b) ==
    IF (a >= 0) = (b > 0) THEN (IF a >= 0 THEN a ELSE -a) \div (IF b > 0 THEN b ELSE -b)
    ELSE -((IF a >= 0 THEN a ELSE -a) \div (IF b > 0 THEN b ELSE -b))
trunc_rem(a, b) == a - b * trunc_div(a, b)

RECURSIVE pow2(_)
pow2(n) == IF n = 0 THEN 1 ELSE 2 * pow2(n - 1)

RECURSIVE bits(_, _, _)
\* a bitwise operation on two naturals, bit by bit
bits(op, a, b) ==
    IF a = 0 /\ b = 0 THEN 0
    ELSE LET x == a % 2
             y == b % 2
             z == IF op = "BitAnd" THEN (IF x = 1 /\ y = 1 THEN 1 ELSE 0)
                  ELSE IF op = "BitOr" THEN (IF x = 1 \/ y = 1 THEN 1 ELSE 0)
                  ELSE (IF x # y THEN 1 ELSE 0)
         IN z + 2 * bits(op, a \div 2, b \div 2)

\* ConstValue::add, sub, mul, div, rem, shl, shr: the checked operation on
\* two constants of the same representation, NoResult when it fails
checked(op, lhs, rhs) ==
    LET a == lhs[2]
        b == rhs[2]
        with(v) == IF lhs[1] = "Uint" /\ v < 0 THEN NoResult ELSE <<lhs[1], v>>
    IN IF op = "Add" THEN with(a + b)
       ELSE IF op = "Sub" THEN with(a - b)
       ELSE IF op = "Mul" THEN with(a * b)
       ELSE IF op = "Div" THEN (IF b = 0 THEN NoResult ELSE with(trunc_div(a, b)))
       ELSE IF op = "Rem" THEN (IF b = 0 THEN NoResult ELSE with(trunc_rem(a, b)))
       ELSE IF b < 0 \/ b >= ShiftBits THEN NoResult
       ELSE IF op = "Shl" THEN with(a * pow2(b))
       ELSE with(a \div pow2(b))

\* ConstValue::eq, ne, lt, le, gt, ge, and, or, bitand, bitor, bitxor
unchecked(op, lhs, rhs) ==
    LET a == lhs[2]
        b == rhs[2]
    IN IF op = "Eq" THEN ConstBool(a = b)
       ELSE IF op = "Ne" THEN ConstBool(a # b)
       ELSE IF op = "Lt" THEN ConstBool(a < b)
       ELSE IF op = "Le" THEN ConstBool(a <= b)
       ELSE IF op = "Gt" THEN ConstBool(a > b)
       ELSE IF op = "Ge" THEN ConstBool(a >= b)
       ELSE IF op = "And" THEN ConstBool(a /\ b)
       ELSE IF op = "Or" THEN ConstBool(a \/ b)
       ELSE <<lhs[1], bits(op, a, b)>>

\* Option::ok_or_else(|| int_overflow(action))
ok_or_else_int_overflow(result) ==
    IF result = NoResult THEN FoldErr("integer overflow") ELSE FoldOk(result)

\* binary, binary.rs lines 36-84
binary(lhs, rhs, op) ==
    IF op \in {"Add", "Sub", "Mul", "Shl", "Shr"} THEN ok_or_else_int_overflow(checked(op, lhs, rhs))
    ELSE IF op \in {"Div", "Rem"}
    THEN IF rhs = ConstInt(0) THEN FoldErr("divide by zero")
         ELSE ok_or_else_int_overflow(checked(op, lhs, rhs))
    ELSE FoldOk(unchecked(op, lhs, rhs))

\* the constants and the operations that are folded: two integers of the
\* same representation, or two booleans
FoldValues == {-2, -1, 0, 1, 3}
FoldInputs ==
    {<<ConstInt(a), ConstInt(b), op>> : a \in FoldValues, b \in FoldValues,
        op \in {"Add", "Sub", "Mul", "Div", "Rem", "Eq", "Ne", "Lt", "Le", "Gt", "Ge", "Shl", "Shr"}}
    \cup {<<ConstUint(a), ConstUint(b), op>> : a \in FoldValues \cap Nat, b \in FoldValues \cap Nat,
        op \in {"Add", "Sub", "Mul", "Div", "Rem", "Eq", "Ne", "Lt", "Le", "Gt", "Ge", "Shl", "Shr",
                "BitAnd", "BitOr", "BitXor"}}
    \cup {<<ConstBool(a), ConstBool(b), op>> : a \in BOOLEAN, b \in BOOLEAN, op \in {"And", "Or"}}

-----------------------------------------------------------------------------
(* compiler/chili_lint/src/type_limits.rs: the limits of integer literals *)

\* a 64-bit integer is written as four digits of 16 bits, the most
\* significant first; the first digit of an i64 carries the sign
\* (two's complement), the first digit of a u64 does not
Digit == 65536
I64(d3, d2, d1, d0) == <<d3, d2, d1, d0>>
U64(d3, d2, d1, d0) == <<d3, d2, d1, d0>>

\* a < b for two integers of the same type
lt(a, b) ==
    \E i \in 1..4 : a[i] < b[i] /\ \A j \in 1..(i - 1) : a[j] = b[j]

\* i64::is_negative, and `value as u64` of an i64 that is not negative
is_negative(value) == value[1] < 0
as_u64(value) == U64(value[1], value[2], value[3], value[4])

\* MIN and MAX of the integer types, as i64 and as u64
i8_MIN == I64(-1, Digit - 1, Digit - 1, Digit - 128)
i8_MAX == I64(0, 0, 0, 127)
i16_MIN == I64(-1, Digit - 1, Digit - 1, Digit - 32768)
i16_MAX == I64(0, 0, 0, 32767)
i32_MIN == I64(-1, Digit - 1, Digit - 32768, 0)
i32_MAX == I64(0, 0, 32767, Digit - 1)
i64_MIN == I64(-32768, 0, 0, 0)
i64_MAX == I64(32767, Digit - 1, Digit - 1, Digit - 1)
u_MIN == U64(0, 0, 0, 0)
u8_MAX == U64(0, 0, 0, 255)
u16_MAX == U64(0, 0, 0, Digit - 1)
u32_MAX == U64(0, 0, Digit - 1, Digit - 1)
u64_MAX == U64(Digit - 1, Digit - 1, Digit - 1, Digit - 1)

\* the widths in bytes of isize and usize the compiler can be built with
PointerWidths == {4, 8}

\* int_ty_range, lines 56-64; isize is the isize of the build of the compiler
int_ty_range(int_ty, pointer_width) ==
    IF int_ty = "I8" THEN <<i8_MIN, i8_MAX>>
    ELSE IF int_ty = "I16" THEN <<i16_MIN, i16_MAX>>
    ELSE IF int_ty = "I32" THEN <<i32_MIN, i32_MAX>>
    ELSE IF int_ty = "I64" THEN <<i64_MIN, i64_MAX>>
    ELSE IF pointer_width = 8 THEN <<i64_MIN, i64_MAX>> ELSE <<i32_MIN, i32_MAX>>

\* uint_ty_range, lines 66-74
uint_ty_range(uint_ty, pointer_width) ==
    IF uint_ty = "U8" THEN <<u_MIN, u8_MAX>>
    ELSE IF uint_ty = "U16" THEN <<u_MIN, u16_MAX>>
    ELSE IF uint_ty = "U32" THEN <<u_MIN, u32_MAX>>
    ELSE IF uint_ty = "U64" THEN <<u_MIN, u64_MAX>>
    ELSE IF pointer_width = 8 THEN <<u_MIN, u64_MAX>> ELSE <<u_MIN, u32_MAX>>

\* ast::Expr: a literal or another expression, with its normalized type
LiteralExpr(literal, ty) == [kind |-> <<"Literal", literal>>, ty |-> ty]
OtherExpr(ty) == [kind |-> <<"Ident">>, ty |-> ty]
LiteralInt(value) == <<"Int", value>>

\* LintSess::check_type_limits, lines 14-53
check_type_limits(e, pointer_width) ==
    IF e.kind[1] = "Literal" /\ e.kind[2][1] = "Int"
    THEN LET value == e.kind[2][2] IN
         IF e.ty[1] = "Int"
         THEN LET range == int_ty_range(e.ty[2], pointer_width) IN
              IF lt(value, range[1]) \/ lt(range[2], value) THEN "Err" ELSE "Ok"
         ELSE IF e.ty[1] = "UInt"
         THEN LET range == uint_ty_range(e.ty[2], pointer_width) IN
              IF is_negative(value) THEN "Err"
              ELSE IF lt(as_u64(value), range[1]) \/ lt(range[2], as_u64(value)) THEN "Err" ELSE "Ok"
         ELSE "Ok"
    ELSE "Ok"

\* the i64 after and before an i64
inc(v) ==
    IF v[4] < Digit - 1 THEN I64(v[1], v[2], v[3], v[4] + 1)
    ELSE IF v[3] < Digit - 1 THEN I64(v[1], v[2], v[3] + 1, 0)
    ELSE IF v[2] < Digit - 1 THEN I64(v[1], v[2] + 1, 0, 0)
    ELSE I64(v[1] + 1, 0, 0, 0)
dec(v) ==
    IF v[4] > 0 THEN I64(v[1], v[2], v[3], v[4] - 1)
    ELSE IF v[3] > 0 THEN I64(v[1], v[2], v[3] - 1, Digit - 1)
    ELSE IF v[2] > 0 THEN I64(v[1], v[2] - 1, Digit - 1, Digit - 1)
    ELSE I64(v[1] - 1, Digit - 1, Digit - 1, Digit - 1)

\* the integer literals: the limits of the types that an i64 can hold, and
\* the integers next to them
LimitValues ==
    {i8_MIN, i8_MAX, i16_MIN, i16_MAX, i32_MIN, i32_MAX, i64_MIN, i64_MAX,
     u_MIN, u8_MAX, u16_MAX, u32_MAX}
LiteralValues ==
    LimitValues \cup {inc(v) : v \in LimitValues \ {i64_MAX}}
                \cup {dec(v) : v \in LimitValues \ {i64_MIN}}

\* the types of the literals
LiteralTypes ==
    {IntTy(t) : t \in {"I8", "I16", "I32", "I64", "Int"}}
        \cup {UIntTy(t) : t \in {"U8", "U16", "U32", "U64", "UInt"}}
        \cup {FloatTy("F64"), Bool}

\* the expressions that are linted
LintedExprs ==
    {LiteralExpr(LiteralInt(v), ty) : v \in LiteralValues, ty \in LiteralTypes}
        \cup {LiteralExpr(<<"Bool">>, Bool), LiteralExpr(<<"Float">>, FloatTy("F64")),
              OtherExpr(IntTy("I8"))}

-----------------------------------------------------------------------------
(* src/parse/postfix.rs: parse_member_access. A lexeme and a name are the
   sequence of their characters *)

\* Span, by the index of its start and of its end; Span::to, with_end, with_start
Span(start, end) == <<start, end>>
span_to(a, b) == Span(a[1], b[2])
with_end(span, index) == Span(span[1], index)
with_start(span, index) == Span(index, span[2])

\* Token of kind Ident, Int, Float, Star and any other kind
Token(kind, lexeme, span) == [kind |-> kind, lexeme |-> lexeme, span |-> span]

\* Ast::Ident, Ast::MemberAccess, Ast::Unary with UnaryOp::Deref; the span is last
AstIdent(name, span) == <<"Ident", name, span>>
AstMemberAccess(expr, member, member_span, span) ==
    <<"MemberAccess", expr, member, member_span, span>>
AstDeref(value, span) == <<"Unary", "Deref", value, span>>
ast_span(ast) == ast[Len(ast)]

RECURSIVE split(_, _)
\* str::split(pat).collect(): the pieces of the lexeme between the separators
split(lexeme, pat) ==
    IF \E i \in DOMAIN lexeme : lexeme[i] = pat
    THEN LET i == CHOOSE i \in DOMAIN lexeme :
                    lexeme[i] = pat /\ \A j \in 1..(i - 1) : lexeme[j] # pat
         IN <<SubSeq(lexeme, 1, i - 1)>> \o split(SubSeq(lexeme, i + 1, Len(lexeme)), pat)
    ELSE <<lexeme>>

\* the Float arm of parse_member_access, lines 112-138
float_member_access(expr, token) ==
    LET start_span == ast_span(expr)
        components == split(token.lexeme, ".")
        first_component_span == with_end(token.span, token.span[2] - Len(components[1]) - 1)
        first_access == AstMemberAccess(expr, components[1], first_component_span,
                                        span_to(start_span, first_component_span))
        second_component_span == with_start(token.span, token.span[1] + Len(components[1]) + 1)
    IN AstMemberAccess(first_access, components[1], second_component_span,
                       span_to(start_span, token.span))

\* Parser::parse_member_access, lines 90-150, of the token after the dot; the
\* lexeme of an Ident is its name and the lexeme of an Int its digits
parse_member_access(expr, token) ==
    LET start_span == ast_span(expr) IN
    IF token.kind \in {"Ident", "Int"}
    THEN AstMemberAccess(expr, token.lexeme, token.span, span_to(start_span, token.span))
    ELSE IF token.kind = "Float" THEN float_member_access(expr, token)
    ELSE IF token.kind = "Star" THEN AstDeref(expr, span_to(start_span, token.span))
    ELSE <<"Err", "expected an identifier, number or *">>

\* the receivers: `t` at index 0 and `t.0` from index 0 to 2
Receivers ==
    {AstIdent(<<"t">>, Span(0, 1)),
     AstMemberAccess(AstIdent(<<"t">>, Span(0, 1)), <<"0">>, Span(2, 3), Span(0, 3))}

\* the lexemes of the float literals `0.1`, `1.0`, `1.1`, `0.12`, `10.2`
FloatLexemes ==
    {<<"0", ".", "1">>, <<"1", ".", "0">>, <<"1", ".", "1">>,
     <<"0", ".", "1", "2">>, <<"1", "0", ".", "2">>}

\* the tokens after the dot, which starts where the receiver ends
MemberTokens(expr) ==
    LET at == ast_span(expr)[2] + 1 IN
    {Token("Float", l, Span(at, at + Len(l))) : l \in FloatLexemes}
        \cup {Token("Ident", <<"x">>, Span(at, at + 1)), Token("Int", <<"0">>, Span(at, at + 1)),
              Token("Star", <<"*">>, Span(at, at + 1)), Token("Comma", <<",">>, Span(at, at + 1))}

-----------------------------------------------------------------------------
(* compiler/chili_interp/src/ffi.rs: the arguments of a foreign call *)

\* the most declared parameters and the most variadic arguments of a call
MaxParams == 2
MaxVariadicArgs == 2

\* a - b on usize: the difference; or, below zero, a panic in a build with
\* overflow checks and 2^w - (b - a) in a build without
usize_sub(a, b, overflow_checks) ==
    IF a >= b THEN <<"usize", a - b>>
    ELSE IF overflow_checks THEN <<"panic", 0>>
    ELSE <<"wrapped", b - a>>

\* index > x for an index of a Vec, which is far below 2^w - (b - a)
usize_gt(index, x) == IF x[1] = "wrapped" THEN FALSE ELSE index > x[2]

\* Value::as_ffi_arg, lines 209-236: what pointer is passed for the value
as_ffi_arg(value, is_variadic) ==
    [is_variadic |-> is_variadic,
     ptr |-> IF value = "Pointer"
             THEN IF is_variadic THEN "as_raw" ELSE "as_inner_raw"
             ELSE "value"]

\* the closure of the arguments, line 78:
\* arg.as_ffi_arg(index > func.param_tys.len() - 1); nothing if it panics
ffi_arg(param_tys_len, index, arg, overflow_checks) ==
    LET last_param == usize_sub(param_tys_len, 1, overflow_checks) IN
    IF last_param[1] = "panic" THEN <<>>
    ELSE <<as_ffi_arg(arg, usize_gt(index, last_param))>>

\* Ffi::call, lines 36-96, up to ffi_call: the argument types of the cif and
\* the argument pointers, or a panic
ffi_call(func, args, overflow_checks) ==
    LET arg_types == func.param_tys
                        \o IF func.variadic
                           THEN SubSeq(args, Len(func.param_tys) + 1, Len(args)) ELSE <<>>
        ffi_args == [i \in DOMAIN args |->
                        ffi_arg(Len(func.param_tys), i - 1, args[i], overflow_checks)]
    IN IF \E i \in DOMAIN args : ffi_args[i] = <<>>
       THEN [panic |-> TRUE, arg_types |-> arg_types, args |-> <<>>]
       ELSE [panic |-> FALSE, arg_types |-> arg_types,
             args |-> [i \in DOMAIN args |-> ffi_args[i][1]]]

\* ForeignFunc: the parameter types and whether it is variadic
ForeignFunc(param_tys, variadic) == [param_tys |-> param_tys, variadic |-> variadic]

FfiTypes == {"I32", "Pointer"}
SeqsUpTo(set, n) == UNION {[1..k -> set] : k \in 0..n}

\* the foreign calls: the fixed arguments have the declared types, and only
\* a variadic function takes more
ForeignCalls ==
    {<<ForeignFunc(p, v), p \o more, checks>> :
        p \in SeqsUpTo(FfiTypes, MaxParams), v \in BOOLEAN,
        more \in SeqsUpTo(FfiTypes, MaxVariadicArgs), checks \in BOOLEAN}

-----------------------------------------------------------------------------
(* The functions that touch no state of the compiler: a call is made with
   its arguments and is answered *)

\* a call with its arguments, not answered yet, and the call answered
Called(fn, in) == [fn |-> fn, in |-> in, out |-> <<>>]
Answered(c, out) == [c EXCEPT !.out = <<out>>]
Pending(fn) == call.fn = fn /\ call.out = <<>>

\* the calls made
Calls ==
    {Called("can_cast", <<from, to>>) : from \in CastTypes, to \in CastTypes}
        \cup {Called("binary", in) : in \in FoldInputs}
        \cup {Called("check_type_limits", <<e.kind, e.ty, w, p>>) :
                    e \in LintedExprs, w \in WordSizes, p \in PointerWidths}
        \cup UNION {{Called("parse_member_access", <<"postfix", "parse", "member", e, t>>) :
                        t \in MemberTokens(e)} : e \in Receivers}
        \cup {Called("ffi_call", <<"ffi", "call", "of", c[1], c[2], c[3]>>) :
                    c \in {x \in ForeignCalls : x[1].variadic \/ Len(x[2]) = Len(x[1].param_tys)}}

\* no workspace is checked, no type context exists
InitPure ==
    /\ TopIdle
    /\ SysIdle
    /\ crate = ""
    /\ tycx = <<>>
    /\ allocated = <<>>
    /\ last = NoLast
    /\ call \in Calls

CanCast ==
    /\ Pending("can_cast")
    /\ call' = Answered(call, can_cast(call.in[1], call.in[2]))
    /\ UNCHANGED <<topVars, tyVars, patVars, sysVars>>

\* binary(&lhs, &rhs, op, span, tcx)
Binary ==
    /\ Pending("binary")
    /\ call' = Answered(call, binary(call.in[1], call.in[2], call.in[3]))
    /\ UNCHANGED <<topVars, tyVars, patVars, sysVars>>

\* sess.check_type_limits(e) for the expression of kind in[1] and type in[2],
\* in a session configured for a target of word size in[3], by a compiler
\* built with pointers of in[4] bytes
CheckTypeLimits ==
    /\ Pending("check_type_limits")
    /\ call' = Answered(call, check_type_limits([kind |-> call.in[1], ty |-> call.in[2]], call.in[4]))
    /\ UNCHANGED <<topVars, tyVars, patVars, sysVars>>

\* self.parse_member_access(expr) with the token in[5] next
ParseMemberAccess ==
    /\ Pending("parse_member_access")
    /\ call' = Answered(call, parse_member_access(call.in[4], call.in[5]))
    /\ UNCHANGED <<topVars, tyVars, patVars, sysVars>>

\* ffi.call(func, args) in a build with or without overflow checks
FfiCall ==
    /\ Pending("ffi_call")
    /\ call' = Answered(call, ffi_call(call.in[4], call.in[5], call.in[6]))
    /\ UNCHANGED <<topVars, tyVars, patVars, sysVars>>

NextPure ==
    \/ CanCast
    \/ Binary
    \/ CheckTypeLimits
    \/ ParseMemberAccess
    \/ FfiCall

SpecPure == InitPure /\ [][NextPure]_vars

\* the numeric families
NumericFamilies == {"AnyInt", "Int", "UInt", "AnyFloat", "Float"}

\* C15: can_cast(from, to) is true for every ordered pair of types of the
\* numeric families AnyInt, Int, UInt, AnyFloat and Float
C15_NumericCrossCasts ==
    (/\ call.fn = "can_cast" /\ call.out # <<>>
     /\ call.in[1][1] \in NumericFamilies
     /\ call.in[2][1] \in NumericFamilies)
        => call.out[1]

RECURSIVE InferTypes(_)
RECURSIVE InferTypesOfAll(_)
InferTypesOfAll(ts) == IF ts = <<>> THEN {} ELSE InferTypes(Head(ts)) \cup InferTypesOfAll(Tail(ts))

\* the Infer types a type contains, at any depth
InferTypes(t) ==
    LET k == t[1] IN
    IF k = "Infer" THEN {t}
    ELSE IF k \in {"Pointer", "Array", "Slice", "Str", "Type"} THEN InferTypes(t[2])
    ELSE IF k = "Tuple" THEN InferTypesOfAll(t[2])
    ELSE IF k = "Struct" THEN InferTypesOfAll(t[4])
    ELSE IF k = "Function"
    THEN InferTypesOfAll(t[2]) \cup InferTypes(t[3])
             \cup (IF Len(t[4]) = 2 THEN InferTypes(t[4][2]) ELSE {})
    ELSE {}

\* C16: make_concrete is idempotent: its result contains no Infer type at
\* any depth, and applied to its result it changes neither the type nor a
\* payload of the type context
C16_MakeConcreteIdempotent ==
    call.fn = "make_concrete" =>
        /\ InferTypes(call.out.ty) = {}
        /\ make_concrete(tycx, call.out.ty) = Concrete(tycx, call.out.ty)

\* a function type with an integer literal parameter, a float literal
\* result and typed varargs was made concrete: both ids are bound
C16_Witness ==
    /\ call.fn = "make_concrete"
    /\ call.in.ty = Function(<<Infer(1, "AnyInt")>>, Infer(2, "AnyFloat"), TypedVarargs(Infer(1, "AnyInt")))
    /\ call.out.ty = Function(<<IntTy("Int")>>, FloatTy("Float"), TypedVarargs(IntTy("Int")))
    /\ tycx = <<Bound(IntTy("Int")), Bound(FloatTy("Float"))>>

-----------------------------------------------------------------------------
(* src/check/pattern.rs: binding names and unpacking tuples *)

\* ScopeLevel::Global and ScopeLevel::Scope(_)
Global == "Global"
Scope == "Scope"

\* Env: the module, the scope level and the bindings of the local scopes
Env(module_id, scope_level, bindings) ==
    [module_id |-> module_id, scope_level |-> scope_level, bindings |-> bindings]

\* PartialBindingInfo, lines 63-79: the fields the binding of patterns reads
BindingInfo(module_id, name, ty, const_value, is_mutable, scope_level, span, flags) ==
    [module_id |-> module_id, name |-> name, ty |-> ty, const_value |-> const_value,
     is_mutable |-> is_mutable, scope_level |-> scope_level, span |-> span, flags |-> flags]

\* Option::None of a node, of a constant and of a binding id
NoValue == <<>>
NoConst == <<>>
NoId == 0

\* hir::Node::Binding, Id, Const, MemberAccess and Sequence; the type id is last
BindingNode(id, name, value) == <<"Binding", id, name, value, "unit">>
IdNode(id, ty) == <<"Id", id, ty>>
ConstNode(value, ty) == <<"Const", value, ty>>
MemberAccess(value, member_index, ty) == <<"MemberAccess", value, member_index, ty>>
Sequence(statements) == <<"Sequence", statements, "unit">>

\* hir::Node::as_const_value
as_const_value(node) == IF node # NoValue /\ node[1] = "Const" THEN node[2] ELSE NoConst

\* Pattern::Name, Pattern::TupleUnpack and Pattern::Hybrid with a tuple unpack
NamePattern(name, is_mutable, ignore, span) ==
    [pattern |-> "Name", name |-> name, is_mutable |-> is_mutable, ignore |-> ignore, span |-> span]
TupleUnpackPattern(sub_patterns, span) ==
    [pattern |-> "TupleUnpack", sub_patterns |-> sub_patterns, span |-> span]
HybridPattern(name_pattern, unpack_pattern, span) ==
    [pattern |-> "Hybrid", name_pattern |-> name_pattern, unpack_pattern |-> unpack_pattern, span |-> span]

\* Pattern::StructUnpack, and its sub-patterns StructUnpackSubPattern::Name,
\* which is a name pattern, and StructUnpackSubPattern::NameAndPattern
StructUnpackPattern(sub_patterns, wildcard, span) ==
    [pattern |-> "StructUnpack", sub_patterns |-> sub_patterns, wildcard |-> wildcard, span |-> span]
NameAndPattern(name, span, pattern) ==
    [pattern |-> "NameAndPattern", name |-> name, span |-> span, sub |-> pattern]

\* hir::Node::MemberAccess of a struct field, with its member_name
FieldAccess(value, member_name, member_index, ty) ==
    <<"MemberAccess", value, member_name, member_index, ty>>

\* Pattern::is_mutable
is_mutable(pattern) ==
    IF pattern.pattern = "Name" THEN pattern.is_mutable
    ELSE IF pattern.pattern = "Hybrid" THEN pattern.name_pattern.is_mutable
    ELSE FALSE

\* the mutable state of the check session that binding a pattern works on
Sess(scopes, infos, e, cx, diagnostics) ==
    [global_scopes |-> scopes, binding_infos |-> infos, env |-> e, tcx |-> cx,
     diagnostics |-> diagnostics]

\* DiagnosticResult<(BindingId, hir::Node)> with the session after the call;
\* an error is its message and the span of its primary label
NoSpan == 0
BindOk(sess, id, node) == [err |-> "", label |-> NoSpan, sess |-> sess, id |-> id, node |-> node]
BindErr(err, label, sess) == [err |-> err, label |-> label, sess |-> sess, id |-> NoId, node |-> NoValue]

\* CheckSess::get_global_binding_id, lines 26-30
get_global_binding_id(scopes, module_id, name) ==
    IF module_id \in DOMAIN scopes /\ name \in DOMAIN scopes[module_id]
    THEN scopes[module_id][name] ELSE NoId

\* bind_name that inserts the name into the global scope whether or not
\* the scope has it
bind_name_in_env_overwriting(sess, name, ty, value, mutable, kind, span, flags) ==
    LET module_id == sess.env.module_id
        scope_level == sess.env.scope_level
        const_value == IF mutable \/ "NO_CONST_FOLD" \in flags THEN NoConst ELSE as_const_value(value)
        id == Len(sess.binding_infos) + 1
        inserted == [sess EXCEPT !.binding_infos =
                        Append(@, BindingInfo(module_id, name, ty, const_value, mutable,
                                              scope_level, span, flags))]
        node == IF value # NoValue THEN BindingNode(id, name, value) ELSE IdNode(id, ty)
    IN IF scope_level = Global
       THEN BindOk([inserted EXCEPT
                        !.global_scopes = insert_global_binding_id(@, module_id, name, id)],
                   id, node)
       ELSE BindOk([inserted EXCEPT !.env.bindings = (name :> id) @@ @], id, node)

\* CheckSess::bind_name, lines 49-133, for any name, span and scope level
bind_name_in_env(sess, name, ty, value, mutable, kind, span, flags) ==
    LET module_id == sess.env.module_id
        scope_level == sess.env.scope_level
        const_value == IF mutable \/ "NO_CONST_FOLD" \in flags THEN NoConst ELSE as_const_value(value)
        id == Len(sess.binding_infos) + 1
        inserted == [sess EXCEPT !.binding_infos =
                        Append(@, BindingInfo(module_id, name, ty, const_value, mutable,
                                              scope_level, span, flags))]
        defined_id == get_global_binding_id(sess.global_scopes, module_id, name)
        node == IF value # NoValue THEN BindingNode(id, name, value) ELSE IdNode(id, ty)
    IN IF scope_level = Global
       THEN IF defined_id # NoId
            THEN IF inserted.binding_infos[defined_id].span # span
                 THEN BindErr("duplicate binding", span, inserted)
                 ELSE BindOk(inserted, id, node)
            ELSE BindOk([inserted EXCEPT
                            !.diagnostics = IF mutable /\ kind # "LetStatic"
                                            THEN Append(@, "cannot be mutable") ELSE @,
                            !.global_scopes = insert_global_binding_id(@, module_id, name, id)],
                        id, node)
       ELSE BindOk([inserted EXCEPT !.env.bindings = (name :> id) @@ @], id, node)

\* `let value = result; body`: the result is computed once and the body uses it
With(value, body(_)) == body(value)

\* CheckSess::bind_name_pattern, lines 135-159
bind_name_pattern(sess, pattern, ty, value, kind, flags) ==
    bind_name_in_env(sess, pattern.name, ty, value, pattern.is_mutable, kind, pattern.span,
                     IF pattern.ignore THEN flags \cup {"IGNORE"} ELSE flags)

\* CheckSess::generate_name: a name no pattern has
GeneratedNames == <<"v0", "v1", "v2", "v3", "v4", "v5">>
generate_name(sess) ==
    GeneratedNames[1 + Cardinality({i \in DOMAIN sess.binding_infos :
                        \E g \in DOMAIN GeneratedNames : sess.binding_infos[i].name = GeneratedNames[g]})]

\* CheckSess::id_or_const_by_id: the constant of the binding, or its id
id_or_const_by_id(sess, id) ==
    LET info == sess.binding_infos[id] IN
    IF info.const_value # NoConst THEN ConstNode(info.const_value, info.ty) ELSE IdNode(id, info.ty)

\* the id node and the statements of get_id_node_for_unpack_pattern, lines 318-328
get_id_node_for_unpack_pattern(sess, bound_node, statements) ==
    IF bound_node[1] = "Binding"
    THEN [node |-> id_or_const_by_id(sess, bound_node[2]), statements |-> Append(statements, bound_node)]
    ELSE [node |-> bound_node, statements |-> statements]

\* the outcome of binding an unpack pattern: the error, the session and the
\* statements after it
Unpacked(err, label, sess, statements) ==
    [err |-> err, label |-> label, sess |-> sess, statements |-> statements]

\* CheckSess::bind_temp_name_for_unpack_pattern, lines 291-316; the node of
\* the result is the id node
bind_temp_name_for_unpack_pattern(sess, ty, value, kind, span, statements, flags) ==
    With(bind_name_in_env(sess, generate_name(sess), ty, value, FALSE, kind, span,
                          flags \ {"IS_USER_DEFINED"}), LAMBDA b :
        IF b.err # "" THEN [b EXCEPT !.node = NoValue] @@ [statements |-> statements]
        ELSE With(get_id_node_for_unpack_pattern(b.sess, b.node, statements), LAMBDA n :
                [b EXCEPT !.node = n.node] @@ [statements |-> n.statements]))

\* TypeCtx::var, type_ctx.rs lines 34-37, as a function of the context
tcx_var(cx) == [cx |-> Append(cx, Unbound), id |-> Len(cx) + 1]

RECURSIVE pattern_types(_, _, _, _)
\* the first loop of bind_tuple_unpack_pattern, lines 588-597: the type id
\* of every sub-pattern from index on
pattern_types(cx, sub_patterns, elem_types, index) ==
    IF index > Len(sub_patterns) THEN [cx |-> cx, tys |-> <<>>]
    ELSE LET ty == IF index <= Len(elem_types) THEN bound(cx, elem_types[index]) ELSE tcx_var(cx)
             rest == pattern_types(ty.cx, sub_patterns, elem_types, index + 1)
         IN [cx |-> rest.cx, tys |-> <<ty.id>> \o rest.tys]

\* element_value that counts the members from 1
element_value_from_one(value, pattern, index, ty) ==
    IF as_const_value(value) # NoConst /\ ~is_mutable(pattern)
    THEN ConstNode(as_const_value(value)[2][index], ty)
    ELSE MemberAccess(value, index, ty)

\* the closure element_value, lines 601-615; member_index counts from 0
element_value(value, pattern, index, ty) ==
    IF as_const_value(value) # NoConst /\ ~is_mutable(pattern)
    THEN ConstNode(as_const_value(value)[2][index], ty)
    ELSE MemberAccess(value, index - 1, ty)

RECURSIVE bind_pattern(_, _, _, _, _, _)
RECURSIVE bind_tuple_unpack_pattern(_, _, _, _, _, _)
RECURSIVE bind_sub_patterns(_, _, _, _, _, _, _, _)

\* the second loop of bind_tuple_unpack_pattern, lines 599-632: the
\* sub-patterns from index on are bound in order, the first error ends it
bind_sub_patterns(sess, statements, sub_patterns, tys, value, kind, flags, index) ==
    IF index > Len(sub_patterns) THEN Unpacked("", NoSpan, sess, statements)
    ELSE With(bind_pattern(sess, sub_patterns[index], tys[index],
                           element_value(value, sub_patterns[index], index, tys[index]),
                           kind, flags \cup {"TYPE_WAS_INFERRED"}), LAMBDA b :
            IF b.err # "" THEN Unpacked(b.err, b.label, b.sess, statements)
            ELSE bind_sub_patterns(b.sess, Append(statements, b.node), sub_patterns, tys,
                                   value, kind, flags, index + 1))

\* CheckSess::bind_tuple_unpack_pattern, lines 575-648
bind_tuple_unpack_pattern(sess, statements, pattern, value, kind, flags) ==
    With(normalize_type(sess.tcx, Var(ty_of(value))), LAMBDA ty :
        IF ty[1] = "Tuple"
        THEN With(ty[2], LAMBDA elem_types :
                IF Len(pattern.sub_patterns) <= Len(elem_types)
                THEN With(pattern_types(sess.tcx, pattern.sub_patterns, elem_types, 1), LAMBDA p :
                        bind_sub_patterns([sess EXCEPT !.tcx = p.cx], statements,
                                          pattern.sub_patterns, p.tys, value, kind, flags, 1))
                ELSE Unpacked("too many unpacked elements", pattern.span, sess, statements))
        ELSE Unpacked("cannot use tuple unpack", pattern.span, sess, statements))

\* CheckSess::bind_pattern, lines 161-289, for the patterns above
bind_pattern(sess, pattern, ty, value, kind, flags) ==
    IF pattern.pattern = "Name" THEN bind_name_pattern(sess, pattern, ty, value, kind, flags)
    ELSE IF pattern.pattern = "TupleUnpack"
    THEN With(bind_temp_name_for_unpack_pattern(sess, ty, value, kind, pattern.span, <<>>, flags),
              LAMBDA t :
            IF t.err # "" THEN BindErr(t.err, t.label, t.sess)
            ELSE With(bind_tuple_unpack_pattern(t.sess, t.statements, pattern, t.node, kind, flags),
                      LAMBDA u :
                    IF u.err # "" THEN BindErr(u.err, u.label, u.sess)
                    ELSE BindOk(u.sess, t.id, Sequence(u.statements))))
    ELSE With(bind_name_pattern(sess, pattern.name_pattern, ty, value, kind, flags), LAMBDA b :
            IF b.err # "" THEN b
            ELSE With(get_id_node_for_unpack_pattern(b.sess, b.node, <<>>), LAMBDA n :
                    With(bind_tuple_unpack_pattern(b.sess, n.statements, pattern.unpack_pattern,
                                                   n.node, kind, flags), LAMBDA u :
                        IF u.err # "" THEN BindErr(u.err, u.label, u.sess)
                        ELSE BindOk(u.sess, b.id, Sequence(u.statements)))))

\* the names of the fields of the struct types that are unpacked: field i of
\* a struct type is named StructFieldNames[i]
StructFieldNames == <<"x", "y", "z">>

\* StructType::field: the place of the field of that name in fields, from 1,
\* or 0 if there is none
struct_field(struct_type, name) ==
    IF \E i \in 1..Len(struct_type[4]) : StructFieldNames[i] = name
    THEN CHOOSE i \in 1..Len(struct_type[4]) : StructFieldNames[i] = name
    ELSE 0

\* the names of the sub-patterns before index: unpacked_names
unpacked_names(sub_patterns, index) == {sub_patterns[j].name : j \in 1..(index - 1)}

\* field_value that takes the place of the field in the struct type as member_index
field_value_by_field(value, pattern, name, field, index, ty) ==
    IF as_const_value(value) # NoConst /\ ~is_mutable(pattern)
    THEN ConstNode(as_const_value(value)[2][field], ty)
    ELSE FieldAccess(value, name, field - 1, ty)

\* field_value, lines 477-490: member_index is the index of the enumeration
\* of the sub-patterns, counted from 0
field_value(value, pattern, name, field, index, ty) ==
    IF as_const_value(value) # NoConst /\ ~is_mutable(pattern)
    THEN ConstNode(as_const_value(value)[2][field], ty)
    ELSE FieldAccess(value, name, index - 1, ty)

RECURSIVE bind_struct_sub_patterns(_, _, _, _, _, _, _, _)
\* the loop over the sub-patterns in the Type::Struct arm of
\* bind_struct_unpack_pattern, lines 465-525
bind_struct_sub_patterns(sess, statements, sub_patterns, struct_type, value, kind, flags, index) ==
    IF index > Len(sub_patterns) THEN Unpacked("", NoSpan, sess, statements)
    ELSE With(sub_patterns[index], LAMBDA pattern :
         With(struct_field(struct_type, pattern.name), LAMBDA field :
            IF pattern.name \in unpacked_names(sub_patterns, index)
            THEN Unpacked("has already been unpacked", pattern.span, sess, statements)
            ELSE IF field = 0
            THEN Unpacked("invalid struct field", pattern.span, sess, statements)
            ELSE With(bound(sess.tcx, struct_type[4][field]), LAMBDA ty :
                 With(field_value(value, pattern, pattern.name, field, index, ty.id), LAMBDA v :
                 With(IF pattern.pattern = "Name"
                      THEN bind_name_pattern([sess EXCEPT !.tcx = ty.cx], pattern, ty.id, v, kind,
                                             flags \cup {"TYPE_WAS_INFERRED"})
                      ELSE bind_pattern([sess EXCEPT !.tcx = ty.cx], pattern.sub, ty.id, v, kind,
                                        flags \cup {"TYPE_WAS_INFERRED"}), LAMBDA b :
                    IF b.err # "" THEN Unpacked(b.err, b.label, b.sess, statements)
                    ELSE bind_struct_sub_patterns(b.sess, Append(statements, b.node), sub_patterns,
                                                  struct_type, value, kind, flags, index + 1))))))

RECURSIVE bind_struct_wildcard(_, _, _, _, _, _, _, _, _)
\* the loop over the fields of the struct type for a wildcard, lines 527-560
bind_struct_wildcard(sess, statements, unpacked, wildcard_span, struct_type, value, kind, flags, field) ==
    IF field > Len(struct_type[4]) THEN Unpacked("", NoSpan, sess, statements)
    ELSE IF StructFieldNames[field] \in unpacked
    THEN bind_struct_wildcard(sess, statements, unpacked, wildcard_span, struct_type, value, kind,
                              flags, field + 1)
    ELSE With(bound(sess.tcx, struct_type[4][field]), LAMBDA ty :
         With(bind_name_in_env([sess EXCEPT !.tcx = ty.cx], StructFieldNames[field], ty.id,
                               IF as_const_value(value) # NoConst
                               THEN ConstNode(as_const_value(value)[2][field], ty.id)
                               ELSE FieldAccess(value, StructFieldNames[field], field - 1, ty.id),
                               FALSE, kind, wildcard_span, flags \ {"IS_USER_DEFINED"}), LAMBDA b :
            IF b.err # "" THEN Unpacked(b.err, b.label, b.sess, statements)
            ELSE bind_struct_wildcard(b.sess, Append(statements, b.node), unpacked, wildcard_span,
                                      struct_type, value, kind, flags, field + 1)))

\* Type::maybe_deref_once
maybe_deref_once(ty) == IF ty[1] = "Pointer" THEN ty[2] ELSE ty

\* CheckSess::bind_struct_unpack_pattern, lines 333-567, for a type that is
\* not a module; wildcard is the span of the wildcard, or NoSpan
bind_struct_unpack_pattern(sess, statements, unpack_pattern, ty, value, kind, flags) ==
    With(maybe_deref_once(normalize_type(sess.tcx, Var(ty))), LAMBDA struct_type :
        IF struct_type[1] = "Struct"
        THEN With(bind_struct_sub_patterns(sess, statements, unpack_pattern.sub_patterns,
                                           struct_type, value, kind, flags, 1), LAMBDA u :
                IF u.err # "" \/ unpack_pattern.wildcard = NoSpan THEN u
                ELSE bind_struct_wildcard(u.sess, u.statements,
                        unpacked_names(unpack_pattern.sub_patterns,
                                       Len(unpack_pattern.sub_patterns) + 1),
                        unpack_pattern.wildcard, struct_type, value, kind, flags, 1))
        ELSE Unpacked("cannot use tuple unpack", unpack_pattern.span, sess, statements))

\* how many bindings the workspace may hold when a pattern starts to be bound
MaxBindings == 2

\* BindingInfoKind::LetStatic and a kind that is not LetStatic
BindingInfoKinds == {"LetStatic", "Let"}

\* the type ids of the values that are unpacked: a pair, a non-tuple, a
\* triple with a pair inside, an unknown type, a struct of three fields
ValueTypes ==
    <<Bound(Tuple(<<Bool, IntTy("I8")>>)),
      Bound(Bool),
      Bound(Tuple(<<Tuple(<<Bool, Bool>>), Bool, Var(2)>>)),
      Unbound,
      Bound(Struct(unknown, "Struct", <<Bool, IntTy("I8"), Tuple(<<Bool, Bool>>)>>))>>

\* the values that are unpacked: a node of every type, and a constant pair
Values ==
    {IdNode(NoId, ty) : ty \in DOMAIN ValueTypes}
        \cup {ConstNode(<<"Tuple", <<<<"Bool", "true">>, <<"Int", "7">>>>>>, 1)}

\* the name patterns: `a` twice at different places, a mutable `b`, an ignored `c`
NamePatterns ==
    <<NamePattern("a", FALSE, FALSE, 1), NamePattern("b", TRUE, FALSE, 2),
      NamePattern("a", FALSE, FALSE, 3), NamePattern("c", FALSE, TRUE, 4)>>

\* the tuple unpack patterns: zero to four names, a name twice, a tuple
\* unpack and a hybrid pattern inside
TupleUnpackPatterns ==
    LET n == NamePatterns IN
    {TupleUnpackPattern(<<>>, 9),
     TupleUnpackPattern(<<n[1]>>, 9),
     TupleUnpackPattern(<<n[1], n[2]>>, 9),
     TupleUnpackPattern(<<n[1], n[3]>>, 9),
     TupleUnpackPattern(<<n[2], n[1], n[4]>>, 9),
     TupleUnpackPattern(<<n[4], n[2], n[1], n[3]>>, 9),
     TupleUnpackPattern(<<TupleUnpackPattern(<<n[1], n[2]>>, 8), n[4]>>, 9),
     TupleUnpackPattern(<<TupleUnpackPattern(<<n[1], n[2], n[4]>>, 8)>>, 9),
     TupleUnpackPattern(<<HybridPattern(n[4], TupleUnpackPattern(<<n[1]>>, 8), 7), n[2]>>, 9)}

\* the struct unpack patterns: fields in the order of the struct type and
\* out of it, some left out, with and without a wildcard, a field twice, a
\* name that is no field, a field bound to another name and to a tuple unpack
StructUnpackPatterns ==
    LET x == NamePattern("x", FALSE, FALSE, 1)
        y == NamePattern("y", FALSE, FALSE, 2)
        z == NamePattern("z", TRUE, FALSE, 3)
        w == NamePattern("w", FALSE, FALSE, 4)
    IN {StructUnpackPattern(<<x, y, z>>, NoSpan, 9),
        StructUnpackPattern(<<y>>, NoSpan, 9),
        StructUnpackPattern(<<z, x>>, NoSpan, 9),
        StructUnpackPattern(<<>>, 5, 9),
        StructUnpackPattern(<<x>>, 5, 9),
        StructUnpackPattern(<<y>>, 5, 9),
        StructUnpackPattern(<<x, x>>, NoSpan, 9),
        StructUnpackPattern(<<w>>, 5, 9),
        StructUnpackPattern(<<NameAndPattern("x", 6, NamePatterns[1])>>, NoSpan, 9),
        StructUnpackPattern(<<NameAndPattern("z", 6, TupleUnpackPattern(<<NamePatterns[1]>>, 8))>>,
                            NoSpan, 9)}

\* a check session that binds the patterns of a module, at the top level
\* of the module or inside a block
InitBind ==
    /\ prog = <<>>
    /\ queued_modules = <<>>
    /\ encountered_items = {}
    /\ global_scopes = EmptyScopes
    /\ stack = <<>>
    /\ ret = NoRet
    /\ started = <<>>
    /\ comptime_started = <<>>
    /\ calls = 0
    /\ crate = "artc"
    /\ tycx = ValueTypes
    /\ allocated = tycx
    /\ last = NoLast
    /\ call = NoCall
    /\ binding_infos = <<>>
    /\ env \in {Env(m, scope_level, <<>>) : m \in {1}, scope_level \in {Global, Scope}}
    /\ SysIdle

\* the session the binding of patterns works on, and the session after it
CheckSess == Sess(global_scopes, binding_infos, env, tycx, <<>>)
Checked(sess) ==
    /\ global_scopes' = sess.global_scopes
    /\ binding_infos' = sess.binding_infos
    /\ env' = sess.env
    /\ tycx' = sess.tcx
    /\ allocated' = allocated \o SubSeq(sess.tcx, Len(tycx) + 1, Len(sess.tcx))
    /\ UNCHANGED <<prog, queued_modules, encountered_items, stack, ret, started,
                   comptime_started, calls, crate, last, sysVars>>

\* the caller takes the result of the call
BindReturn ==
    /\ crate = "artc"
    /\ env # NoEnv
    /\ call # NoCall
    /\ call' = NoCall
    /\ UNCHANGED <<topVars, tyVars, patVars, sysVars>>

\* sess.bind_name(env, name, visibility, ty, value, is_mutable, kind, span, flags)
BindName(name, ty, value, mutable, kind, span) ==
    /\ crate = "artc"
    /\ env # NoEnv
    /\ call = NoCall
    /\ Len(binding_infos) < MaxBindings
    /\ \E r \in {bind_name_in_env(CheckSess, name, ty, value, mutable, kind, span, {"IS_USER_DEFINED"})} :
          /\ Checked(r.sess)
          /\ call' = [fn |-> "bind_name",
                      in |-> [name |-> name, span |-> span, is_mutable |-> mutable, kind |-> kind,
                              sess |-> CheckSess],
                      out |-> [err |-> r.err, label |-> r.label, id |-> r.id, node |-> r.node,
                               diagnostics |-> r.sess.diagnostics]]

\* sess.bind_tuple_unpack_pattern(&mut statements, env, pattern, visibility,
\* value, kind, ty_origin_span, flags)
BindTupleUnpackPattern(pattern, value, kind) ==
    /\ crate = "artc"
    /\ env # NoEnv
    /\ call = NoCall
    /\ Len(binding_infos) < MaxBindings
    /\ \E r \in {bind_tuple_unpack_pattern(CheckSess, <<>>, pattern, value, kind, {"IS_USER_DEFINED"})} :
          /\ Checked(r.sess)
          /\ call' = [fn |-> "bind_tuple_unpack_pattern",
                      in |-> [pattern |-> pattern, value |-> value, kind |-> kind, sess |-> CheckSess],
                      out |-> [err |-> r.err, label |-> r.label, statements |-> r.statements,
                               diagnostics |-> r.sess.diagnostics]]

\* sess.bind_struct_unpack_pattern(&mut statements, env, unpack_pattern,
\* visibility, ty, value, kind, ty_origin_span, flags)
BindStructUnpackPattern(pattern, ty, value, kind) ==
    /\ crate = "artc"
    /\ env # NoEnv
    /\ call = NoCall
    /\ Len(binding_infos) < MaxBindings
    /\ \E r \in {bind_struct_unpack_pattern(CheckSess, <<>>, pattern, ty, value, kind, {"IS_USER_DEFINED"})} :
          /\ Checked(r.sess)
          /\ call' = [fn |-> "bind_struct_unpack_pattern",
                      in |-> [pattern |-> pattern, ty |-> ty, value |-> value, kind |-> kind,
                              sess |-> CheckSess],
                      out |-> [err |-> r.err, label |-> r.label, statements |-> r.statements,
                               diagnostics |-> r.sess.diagnostics]]

NextBind ==
    \/ BindReturn
    \/ \E n \in DOMAIN NamePatterns, kind \in BindingInfoKinds :
            BindName(NamePatterns[n].name, 2,
                     IF kind = "LetStatic" THEN NoValue ELSE ConstNode(<<"Bool", "true">>, 2),
                     NamePatterns[n].is_mutable, kind, NamePatterns[n].span)
    \/ \E pattern \in TupleUnpackPatterns, value \in Values :
            BindTupleUnpackPattern(pattern, value, "Let")
    \/ \E pattern \in StructUnpackPatterns, ty \in {1, 5} :
            BindStructUnpackPattern(pattern, ty, IdNode(NoId, ty), "Let")

SpecBind == InitBind /\ [][NextBind]_vars

-----------------------------------------------------------------------------
(* Properties of the binding of patterns *)

BindNameCall == call.fn = "bind_name"

\* the binding id the global scope of the module had for the name before
\* the call
DefinedId ==
    get_global_binding_id(call.in.sess.global_scopes, call.in.sess.env.module_id, call.in.name)

\* bind_name at global scope for a name the global scope has with another span
DuplicateCall ==
    /\ BindNameCall
    /\ call.in.sess.env.scope_level = Global
    /\ DefinedId # NoId
    /\ call.in.sess.binding_infos[DefinedId].span # call.in.span

\* every entry of every global scope is there after the step, with the same id
GlobalEntriesKept ==
    \A m \in DOMAIN global_scopes : \A name \in DOMAIN global_scopes[m] :
        /\ name \in DOMAIN global_scopes'[m]
        /\ global_scopes'[m][name] = global_scopes[m][name]

\* C17: at global scope, bind_name for a name that the global scope of the
\* module already has with a different span returns a duplicate-binding
\* error; and over every sequence of calls the entry of a name in a global
\* scope, once set, keeps the binding id that was registered first
C17_GlobalNameBoundOnce ==
    /\ [](DuplicateCall => call.out.err = "duplicate binding")
    /\ [][GlobalEntriesKept]_vars

\* `a` was bound at the top level of the module at span 1 and then again at
\* span 3: the second call returned the error and the scope has the first id
C17_Witness ==
    /\ DuplicateCall
    /\ call.in.name = "a"
    /\ call.in.span = 3
    /\ call.out.err = "duplicate binding"
    /\ global_scopes[1]["a"] = 1
    /\ Len(binding_infos) = 2

TupleCall == call.fn = "bind_tuple_unpack_pattern"

\* the normalized type of the value, the sub-patterns, and the numbers n and k
ValueType == normalize_type(call.in.sess.tcx, Var(ty_of(call.in.value)))
SubPatterns == call.in.pattern.sub_patterns
ElemTypes == ValueType[2]

\* the value a statement binds: the value of the binding, and for an unpack
\* or hybrid sub-pattern the value of the first binding of its sequence
BoundValue(statement) ==
    IF statement[1] = "Binding" THEN statement[4] ELSE statement[2][1][4]

\* statement i binds element i of the tuple: the member of the value at
\* index i counted from 0, or element i of the constant, with the type of
\* element i; and a name sub-pattern binds its name
BoundToElement(i) ==
    LET statement == call.out.statements[i]
        v == BoundValue(statement)
    IN /\ \/ v[1] = "MemberAccess" /\ v[2] = call.in.value /\ v[3] = i - 1
          \/ v[1] = "Const" /\ v[2] = as_const_value(call.in.value)[2][i]
       /\ normalize_type(tycx, Var(ty_of(v))) = normalize_type(tycx, ElemTypes[i])
       /\ SubPatterns[i].pattern = "Name" => statement[1] = "Binding" /\ statement[3] = SubPatterns[i].name

\* nothing was bound by the call
NothingBound ==
    /\ call.out.statements = <<>>
    /\ binding_infos = call.in.sess.binding_infos
    /\ global_scopes = call.in.sess.global_scopes
    /\ env = call.in.sess.env

\* C18: bind_tuple_unpack_pattern on a value of a tuple type with n elements
\* and a pattern of k sub-patterns succeeds iff k <= n, binding sub-pattern i
\* to element i for every i < k, and returns 'too many unpacked elements'
\* iff k > n; on a value whose normalized type is not a tuple it returns
\* 'cannot use tuple unpack' and binds no sub-pattern
C18_TupleUnpackByArity ==
    TupleCall =>
        IF ValueType[1] = "Tuple"
        THEN /\ call.out.err = "" <=> Len(SubPatterns) <= Len(ElemTypes)
             /\ call.out.err = "too many unpacked elements" <=> Len(SubPatterns) > Len(ElemTypes)
             /\ call.out.err = "" =>
                    /\ Len(call.out.statements) = Len(SubPatterns)
                    /\ \A i \in 1..Len(SubPatterns) : BoundToElement(i)
        ELSE call.out.err = "cannot use tuple unpack" /\ NothingBound

\* every sub-pattern is a name, and the names are bound in a local scope
NamesInLocalScope ==
    /\ \A i \in 1..Len(SubPatterns) : SubPatterns[i].pattern = "Name"
    /\ call.in.sess.env.scope_level = Scope

\* C18 as amended: with k <= n the sub-patterns are bound in order, sub-pattern
\* i to element i, up to the first sub-pattern whose binding fails; the call
\* succeeds iff none fails and returns the error of the one that fails; the
\* error 'too many unpacked elements' labelled at the pattern comes iff
\* k > n and then nothing is bound; name sub-patterns in a local scope never
\* fail; a value that is not a tuple gives 'cannot use tuple unpack' and
\* nothing is bound
C18_TupleUnpackBySubPatterns ==
    TupleCall =>
        IF ValueType[1] = "Tuple"
        THEN /\ (call.out.err = "too many unpacked elements" /\ call.out.label = call.in.pattern.span)
                    <=> Len(SubPatterns) > Len(ElemTypes)
             /\ Len(SubPatterns) > Len(ElemTypes) => NothingBound
             /\ Len(SubPatterns) <= Len(ElemTypes) =>
                    /\ Len(call.out.statements) <= Len(SubPatterns)
                    /\ \A i \in 1..Len(call.out.statements) : BoundToElement(i)
                    /\ call.out.err = "" <=> Len(call.out.statements) = Len(SubPatterns)
                    /\ call.out.err # "" => call.out.label # call.in.pattern.span
                    /\ NamesInLocalScope => call.out.err = ""
        ELSE /\ call.out.err = "cannot use tuple unpack"
             /\ call.out.label = call.in.pattern.span
             /\ NothingBound

\* the pattern (b, a, c) was bound to the triple: three statements, one for
\* each element
C18_Witness ==
    /\ TupleCall
    /\ ValueType[1] = "Tuple"
    /\ Len(ElemTypes) = 3
    /\ Len(SubPatterns) = 3
    /\ call.out.err = ""
    /\ Len(call.out.statements) = 3
    /\ BoundValue(call.out.statements[3])[1] = "MemberAccess"
    /\ BoundValue(call.out.statements[3])[3] = 2

-----------------------------------------------------------------------------
(* Properties of constant folding *)

StructUnpackCall == call.fn = "bind_struct_unpack_pattern"

\* the normalized struct type of the call, and the member accesses of the
\* value that its statements bind
UnpackedStructType == normalize_type(call.in.sess.tcx, Var(call.in.ty))
FieldAccesses ==
    {BoundValue(call.out.statements[i]) : i \in DOMAIN call.out.statements}

\* C27: when a struct unpack pattern takes a value of a struct type that is
\* not a constant, the MemberAccess of every bound field has as member_index
\* the place of that field in the field list of the struct type, whatever
\* the order of the sub-patterns and whatever fields the pattern leaves out
C27_MemberIndexIsFieldPosition ==
    (StructUnpackCall /\ UnpackedStructType[1] = "Struct" /\ as_const_value(call.in.value) = NoConst
            /\ call.out.err = "") =>
        \A v \in FieldAccesses :
            /\ v[1] = "MemberAccess"
            /\ v[2] = call.in.value
            /\ v[4] + 1 = struct_field(UnpackedStructType, v[3])

\* C19: folding Div or Rem whose right operand is an integer constant equal
\* to zero, signed or unsigned, always returns the 'divide by zero'
\* diagnostic, never 'integer overflow' and never a value
C19_DivideByZero ==
    (/\ call.fn = "binary" /\ call.out # <<>>
     /\ call.in[3] \in {"Div", "Rem"}
     /\ call.in[2] \in {ConstInt(0), ConstUint(0)})
        => call.out[1] = FoldErr("divide by zero")

-----------------------------------------------------------------------------
(* Properties of the limits of integer literals *)

\* a <= b
le(a, b) == a = b \/ lt(a, b)

\* the least and the greatest value of an integer type for a target of the
\* word size
LeastOf(ty, word_size) ==
    IF ty[1] = "UInt" THEN u_MIN
    ELSE IF ty[2] = "I8" THEN i8_MIN
    ELSE IF ty[2] = "I16" THEN i16_MIN
    ELSE IF ty[2] = "I32" \/ (ty[2] = "Int" /\ word_size = 4) THEN i32_MIN
    ELSE i64_MIN
GreatestOf(ty, word_size) ==
    IF ty[1] = "Int"
    THEN IF ty[2] = "I8" THEN i8_MAX
         ELSE IF ty[2] = "I16" THEN i16_MAX
         ELSE IF ty[2] = "I32" \/ (ty[2] = "Int" /\ word_size = 4) THEN i32_MAX
         ELSE i64_MAX
    ELSE IF ty[2] = "U8" THEN u8_MAX
         ELSE IF ty[2] = "U16" THEN u16_MAX
         ELSE IF ty[2] = "U32" \/ (ty[2] = "UInt" /\ word_size = 4) THEN u32_MAX
         ELSE u64_MAX

\* the call checked an integer literal of an integer type
IntLiteralCall ==
    /\ call.fn = "check_type_limits" /\ call.out # <<>>
    /\ call.in[1][1] = "Literal" /\ call.in[1][2][1] = "Int"
    /\ call.in[2][1] \in {"Int", "UInt"}

\* C20: check_type_limits accepts an integer literal of value v of a signed
\* type T iff min(T) <= v <= max(T) and of an unsigned type T iff
\* 0 <= v <= max(T), the limits of int and uint being those of the
\* configured target word size; i64::MIN is accepted at i64 and rejected at u64
C20_LiteralWithinLimits ==
    IntLiteralCall =>
        LET v == call.in[1][2][2]
            ty == call.in[2]
            word_size == call.in[3]
        IN call.out[1] = "Ok" <=>
              IF ty[1] = "Int"
              THEN le(LeastOf(ty, word_size), v) /\ le(v, GreatestOf(ty, word_size))
              ELSE ~is_negative(v) /\ le(as_u64(v), GreatestOf(ty, word_size))

------------------------------------------------------------------------\* a call of the function fn is answered
AnsweredCall(fn) == call.fn = fn /\ call.out # <<>>

\* C29: a member access whose member token is a float literal with the
\* lexeme A.B becomes two nested member accesses on the receiver, the inner
\* one with the member A and the outer one with the member B
C29_ChainedTupleAccess ==
    (AnsweredCall("parse_member_access") /\ call.in[5].kind = "Float") =>
        LET components == split(call.in[5].lexeme, ".")
            outer == call.out[1]
            inner == outer[2]
        IN /\ outer[1] = "MemberAccess"
           /\ inner[1] = "MemberAccess"
           /\ inner[2] = call.in[4]
           /\ inner[3] = components[1]
           /\ outer[3] = components[2]

\* C30: argument i of a foreign call, counted from 0, is passed as a variadic
\* argument exactly when i is at least the number of declared parameters,
\* for every number of declared parameters and for none; and the call does
\* not panic on the way
C30_VariadicFromDeclaredCount ==
    AnsweredCall("ffi_call") =>
        /\ ~call.out[1].panic
        /\ Len(call.out[1].args) = Len(call.in[5])
        /\ \A i \in DOMAIN call.out[1].args :
                call.out[1].args[i].is_variadic <=> i - 1 >= Len(call.in[4].param_tys)

-----
(* src/interp/vm/mod.rs: the value stack and the frames of the compile-time VM *)

FRAMES_MAX == 64
\* std::u8::MAX as usize is 255
STACK_MAX == FRAMES_MAX * 255 + 1

\* Value: a tag and a payload (the id of a function, an integer)
ValueInt(v) == <<"Int", v>>
ValueFunction(id) == <<"Function", id>>
Value_unit == <<"Unit", 0>>
\* the run has not returned a value yet
NotReturned == <<"None", 0>>
\* the process has panicked
Panicked == <<"Panic", 0>>

\* Instruction: a tag and an operand
InstNoop == <<"Noop", 0>>
InstPop == <<"Pop", 0>>
InstPushConst(addr) == <<"PushConst", addr>>
InstAdd == <<"Add", 0>>
InstReturn == <<"Return", 0>>
InstCall(arg_count) == <<"Call", arg_count>>
InstPeek(slot) == <<"Peek", slot>>
InstSetLocal(slot) == <<"SetLocal", slot>>

\* value::Function with its CompiledCode
VmFunction(name, arg_types, locals, instructions) ==
    [name |-> name, arg_types |-> arg_types,
     code |-> [instructions |-> instructions, locals |-> locals]]

\* Stack<T, N>: slots are counted from 0
stack_push(s, v) == Append(s, v)
stack_last(s) == s[Len(s)]
stack_pop(s) == SubSeq(s, 1, Len(s) - 1)
stack_truncate(s, len) == SubSeq(s, 1, Min(len, Len(s)))
stack_get(s, slot) == s[slot + 1]
stack_set(s, slot, v) == [s EXCEPT ![slot + 1] = v]

\* StackFrame::new, lines 38-44; func is the id of the function
StackFrame(func, slot) == [func |-> func, stack_slot |-> slot, ip |-> 0]

\* VM::new, lines 154-161; frame is the position in frames that the pointer
\* `frame` refers to, 0 for the null pointer
VM_new == [stack |-> <<>>, frames |-> <<>>, frame |-> 0, result |-> NotReturned]

\* push_frame that reserves no slot for the locals
push_frame_without_locals(v, func) ==
    LET frames == stack_push(v.frames, StackFrame(func, Len(v.stack)))
    IN [v EXCEPT !.frames = frames, !.frame = Len(frames)]

\* VM::push_frame, lines 486-500
push_frame(v, func) ==
    LET stack_slot == Len(v.stack)
        locals == interp.functions[func].code.locals
        frames == stack_push(v.frames, StackFrame(func, stack_slot))
    IN [v EXCEPT !.stack = @ \o [i \in 1..locals |-> Value_unit],
                 !.frames = frames,
                 !.frame = Len(frames)]

\* VM::frame, lines 502-506
frame(v) == v.frames[v.frame]

\* VM::next, lines 514-517
next(v) == [v EXCEPT !.frames[v.frame].ip = @ + 1]

\* VM::get_const, lines 519-522
get_const(addr) == interp.constants[addr + 1]

\* the instruction run_inner fetches, line 171; ip counts from 0
Fetched(v) == interp.functions[frame(v).func].code.instructions[frame(v).ip + 1]

\* the most arguments and locals of a function, the most temporaries a
\* function leaves on the stack, and the deepest nesting of calls
MaxArgs == 2
MaxLocals == 2
MaxTemps == 1
MaxCallDepth == 3

Repeat(x, n) == [i \in 1..n |-> x]

\* the constants of a program: 7, 1, and the functions 2..depth+1
VmConstants(depth) ==
    <<ValueInt(7), ValueInt(1)>> \o [k \in 1..depth |-> ValueFunction(k + 1)]

\* the arguments are pushed, then the function value, then Call
CallOf(func, nargs) ==
    Repeat(InstPushConst(1), nargs) \o <<InstPushConst(func), InstCall(nargs)>>

\* the function that run_func runs: it calls function 2, keeps the result in
\* its first local when it has one, and returns it
MainFunction(nargs, nlocals, depth) ==
    VmFunction("main", <<>>, nlocals,
        IF depth = 0 THEN <<InstPushConst(0), InstReturn>>
        ELSE CallOf(2, nargs)
                \o (IF nlocals > 0 THEN <<InstSetLocal(0), InstPeek(0)>> ELSE <<InstNoop>>)
                \o <<InstReturn>>)

\* a function that calls the next one and returns its result plus one
MiddleFunction(k, nargs, nlocals) ==
    VmFunction("f", Repeat("int", nargs), nlocals,
        CallOf(k + 1, nargs) \o <<InstPushConst(1), InstAdd, InstReturn>>)

\* the innermost function: it leaves temporaries on the stack and returns
\* its first argument, or 7 when it has none
LeafFunction(nargs, nlocals, temps) ==
    VmFunction("g", Repeat("int", nargs), nlocals,
        Repeat(InstPushConst(1), temps)
            \o (IF nargs > 0 THEN <<InstPeek(0 - nargs)>> ELSE <<InstPushConst(0)>>)
            \o <<InstPushConst(1), InstPop, InstReturn>>)

\* Interp: the constants and the functions by id
VmProgram(nargs, nlocals, temps, depth) ==
    [constants |-> VmConstants(depth),
     functions |-> [k \in 1..(depth + 1) |->
                        IF k = 1 THEN MainFunction(nargs, nlocals, depth)
                        ELSE IF k <= depth THEN MiddleFunction(k, nargs, nlocals)
                        ELSE LeafFunction(nargs, nlocals, temps)]]

VmPrograms ==
    {VmProgram(nargs, nlocals, temps, depth) :
        nargs \in 0..MaxArgs, nlocals \in 0..MaxLocals, temps \in 0..MaxTemps,
        depth \in 0..MaxCallDepth}

InitVM ==
    /\ TopIdle
    /\ TyIdle
    /\ driver = NoDriver
    /\ astgen = NoAstgen
    /\ interp \in VmPrograms
    /\ vm = VM_new

\* run_inner is about to execute an instruction with this tag
Executing(tag) ==
    /\ vm # NoVm
    /\ vm.frames # <<>>
    /\ vm.result = NotReturned
    /\ Fetched(vm)[1] = tag

\* what an instruction leaves alone
VmFrame == UNCHANGED <<checkerVars, interp, driver, astgen>>

\* VM::run_func, lines 163-166
RunFunc(function) ==
    /\ interp # NoInterp
    /\ vm = VM_new
    /\ vm' = push_frame(vm, function)
    /\ VmFrame

\* Instruction::Noop, lines 177-179
Noop ==
    /\ Executing("Noop")
    /\ vm' = next(vm)
    /\ VmFrame

\* Instruction::Pop, lines 180-183
VmPop ==
    /\ Executing("Pop")
    /\ vm' = next([vm EXCEPT !.stack = stack_pop(@)])
    /\ VmFrame

\* Instruction::PushConst, lines 184-187
PushConst ==
    /\ Executing("PushConst")
    /\ vm' = next([vm EXCEPT !.stack = stack_push(@, get_const(Fetched(vm)[2]))])
    /\ VmFrame

\* Instruction::Add, lines 188-190, with binary_op!, lines 59-82
Add ==
    /\ Executing("Add")
    /\ LET b == stack_last(vm.stack)
           a == stack_last(stack_pop(vm.stack))
           rest == stack_pop(stack_pop(vm.stack))
       IN vm' = IF a[1] = "Int" /\ b[1] = "Int"
                THEN next([vm EXCEPT !.stack = stack_push(rest, ValueInt(a[2] + b[2]))])
                ELSE [vm EXCEPT !.stack = rest, !.result = Panicked]
    /\ VmFrame

\* Instruction::Peek, lines 344-349
Peek ==
    /\ Executing("Peek")
    /\ LET slot == frame(vm).stack_slot + Fetched(vm)[2]
           value == stack_get(vm.stack, slot)
       IN vm' = next([vm EXCEPT !.stack = stack_push(@, value)])
    /\ VmFrame

\* Instruction::SetLocal, lines 357-362
SetLocal ==
    /\ Executing("SetLocal")
    /\ LET slot == frame(vm).stack_slot + Fetched(vm)[2]
           value == stack_last(vm.stack)
       IN vm' = next([vm EXCEPT !.stack = stack_set(stack_pop(@), slot, value)])
    /\ VmFrame

\* Instruction::Call, lines 301-325, for the value of an internal function
\* (FunctionValue::Orphan); any other value here is not callable
Call ==
    /\ Executing("Call")
    /\ LET callee == stack_last(vm.stack)
           popped == [vm EXCEPT !.stack = stack_pop(@)]
       IN vm' = IF callee[1] = "Function" THEN push_frame(popped, callee[2])
                ELSE [popped EXCEPT !.result = Panicked]
    /\ VmFrame

\* Instruction::Return, lines 287-300
Return ==
    /\ Executing("Return")
    /\ LET returning == stack_last(vm.frames)
           frames == stack_pop(vm.frames)
           return_value == stack_last(vm.stack)
           stack_popped == stack_pop(vm.stack)
       IN vm' = IF frames = <<>>
                THEN [vm EXCEPT !.frames = frames, !.stack = stack_popped,
                                !.result = return_value]
                ELSE next([vm EXCEPT
                        !.frames = frames,
                        !.frame = Len(frames),
                        !.stack = stack_push(
                            stack_truncate(stack_popped,
                                returning.stack_slot
                                    - Len(interp.functions[returning.func].arg_types)),
                            return_value)])
    /\ VmFrame

NextVM ==
    \/ RunFunc(1)
    \/ Noop
    \/ VmPop
    \/ PushConst
    \/ Add
    \/ Peek
    \/ SetLocal
    \/ Call
    \/ Return

SpecVM == InitVM /\ [][NextVM]_vars

-----------------------------------------------------------------------------
(* Properties of the VM *)

\* C21: the capacity of the value stack, STACK_MAX, is a constant of at least
\* 16384 slots and equals FRAMES_MAX * 256 + 1 with FRAMES_MAX = 64
C21_StackCapacity ==
    /\ FRAMES_MAX = 64
    /\ STACK_MAX = FRAMES_MAX * 256 + 1
    /\ STACK_MAX >= 16384
    /\ (vm # NoVm => Len(vm.stack) <= STACK_MAX)

\* Call is about to be executed on the value of an internal function
InternalCall == Executing("Call") /\ stack_last(vm.stack)[1] = "Function"

\* Call pushes one frame for the callee at the height of the stack (the
\* function value taken off), reserves the locals and leaves the callers alone
CallPushesFrame ==
    InternalCall =>
        LET callee == stack_last(vm.stack)[2]
            height == Len(vm.stack) - 1
        IN /\ vm'.frames = Append(vm.frames, [func |-> callee, stack_slot |-> height, ip |-> 0])
           /\ vm'.frame = Len(vm.frames) + 1
           /\ vm'.stack = SubSeq(vm.stack, 1, height)
                            \o Repeat(Value_unit, interp.functions[callee].code.locals)
           /\ vm'.result = NotReturned

\* Return in a called function pops its frame, cuts the stack at the base
\* slot less the arguments, pushes the return value and moves the caller
\* from its Call to the next instruction; in the outermost frame it ends the
\* run with the popped value
ReturnPopsFrame ==
    Executing("Return") =>
        LET depth == Len(vm.frames)
            returning == vm.frames[depth]
            return_value == vm.stack[Len(vm.stack)]
        IN IF depth = 1
           THEN vm'.frames = <<>> /\ vm'.result = return_value
           ELSE LET caller == vm.frames[depth - 1]
                    base == returning.stack_slot - Len(interp.functions[returning.func].arg_types)
                IN /\ interp.functions[caller.func].code.instructions[caller.ip + 1][1] = "Call"
                   /\ vm'.frames = [SubSeq(vm.frames, 1, depth - 1) EXCEPT ![depth - 1].ip = caller.ip + 1]
                   /\ vm'.frame = depth - 1
                   /\ vm'.stack = SubSeq(vm.stack, 1, base) \o <<return_value>>
                   /\ vm'.result = NotReturned

\* no other instruction pushes or pops a frame
OthersKeepFrames ==
    (vm # NoVm /\ vm.frames # <<>> /\ ~Executing("Call") /\ ~Executing("Return")) =>
        Len(vm'.frames) = Len(vm.frames)

\* C28: a Call of an internal function pushes exactly one frame whose base
\* slot is the height of the stack at the call and reserves the locals of the
\* callee; the Return of the callee brings the depth of the frames back, cuts
\* the value stack at the base slot less the number of arguments with the
\* return value alone on top, and the caller goes on after its Call; a Return
\* in the outermost frame ends the run with the popped value
C28_CallAndReturnBalance ==
    [][CallPushesFrame /\ ReturnPopsFrame /\ OthersKeepFrames]_vars

\* a function with two arguments, two locals and a temporary on the stack has
\* returned 1 to a caller that was itself called
C28_Witness ==
    /\ vm # NoVm
    /\ Len(vm.frames) = 2
    /\ frame(vm).ip > 0
    /\ interp.functions[frame(vm).func].code.instructions[frame(vm).ip] = InstCall(2)
    /\ stack_last(vm.stack) = ValueInt(1)
    /\ interp.functions[3].code.locals = 2
    /\ interp.functions[3].code.instructions[1] = InstPushConst(1)
    /\ Len(interp.functions[3].code.instructions) = 5

-----------------------------------------------------------------------------
(* src/driver.rs: the stages of start_workspace *)

\* the most diagnostics a stage pushes
MaxStageDiagnostics == 2

\* DiagnosticSeverity
Severities == {"Error", "Warning"}

\* what a stage may push into workspace.diagnostics
StageDiagnostics == UNION {[1..n -> Severities] : n \in 0..MaxStageDiagnostics}

\* Diagnostics::has_errors
has_errors(diagnostics) == \E i \in DOMAIN diagnostics : diagnostics[i] = "Error"

\* the build options start_workspace reads: whether the source file exists
\* and the CodegenOptions
BuildOptions(source_file_exists, codegen_options) ==
    [source_file_exists |-> source_file_exists, codegen_options |-> codegen_options]

\* a call of workspace.emit_diagnostics() and the diagnostics it is called on
Emitted(stage, diagnostics) == [stage |-> stage, diagnostics |-> diagnostics]

\* the return of start_workspace after a stage has left an error in the sink:
\* the diagnostics are emitted first
ReturnWithErrors(d, stage, result) ==
    [d EXCEPT !.emitted = Append(@, Emitted(stage, d.diagnostics)),
              !.at = "returned", !.result = result]

\* a stage has run and pushed its diagnostics, and has_errors is tested
AfterStage(stage, pushed, next_stage, result) ==
    LET diagnostics == driver.diagnostics \o pushed
        d == [driver EXCEPT !.diagnostics = diagnostics,
                            !.ran = Append(@, Emitted(stage, diagnostics))]
    IN driver' = IF has_errors(diagnostics) THEN ReturnWithErrors(d, stage, result)
                 ELSE [d EXCEPT !.at = next_stage]

DriverFrame == UNCHANGED <<checkerVars, vmVars, astgen>>

\* start_workspace, lines 55-79: the workspace is set up and the root file
\* is looked for
StartWorkspace ==
    /\ driver # NoDriver
    /\ driver.at = "start"
    /\ driver' = IF ~driver.build_options.source_file_exists
                 THEN ReturnWithErrors([driver EXCEPT !.diagnostics = Append(@, "Error")],
                                       "setup", "new_untyped")
                 ELSE [driver EXCEPT !.at = "parse"]
    /\ DriverFrame

\* start_workspace, lines 81-89: generate_ast
Parse(pushed) ==
    /\ driver # NoDriver
    /\ driver.at = "parse"
    /\ AfterStage("parse", pushed, "check", "new_untyped")
    /\ DriverFrame

\* start_workspace, lines 91-99: check
Check(pushed) ==
    /\ driver # NoDriver
    /\ driver.at = "check"
    /\ AfterStage("check", pushed, "lint", "new_typed")
    /\ DriverFrame

\* start_workspace, lines 101-113: lint
Lint(pushed) ==
    /\ driver # NoDriver
    /\ driver.at = "lint"
    /\ AfterStage("lint", pushed, "codegen", "new_typed")
    /\ DriverFrame

\* start_workspace, lines 115-134: codegen, which takes the workspace by
\* shared reference, when the options ask for it
Codegen ==
    /\ driver # NoDriver
    /\ driver.at = "codegen"
    /\ driver' = IF driver.build_options.codegen_options = "Codegen"
                 THEN [driver EXCEPT !.ran = Append(@, Emitted("codegen", driver.diagnostics)),
                                     !.at = "returned", !.result = "new_typed_with_output"]
                 ELSE [driver EXCEPT !.at = "returned", !.result = "new_typed"]
    /\ DriverFrame

InitDriver ==
    /\ TopIdle
    /\ TyIdle
    /\ VmIdle
    /\ astgen = NoAstgen
    /\ driver \in {[at |-> "start", build_options |-> BuildOptions(e, c), diagnostics |-> <<>>,
                    ran |-> <<>>, emitted |-> <<>>, result |-> ""] :
                        e \in BOOLEAN, c \in {"Codegen", "Skip"}}

NextDriver ==
    \/ StartWorkspace
    \/ \E pushed \in StageDiagnostics : Parse(pushed)
    \/ \E pushed \in StageDiagnostics : Check(pushed)
    \/ \E pushed \in StageDiagnostics : Lint(pushed)
    \/ Codegen

SpecDriver == InitDriver /\ [][NextDriver]_vars

-----------------------------------------------------------------------------
(* Properties of the driver *)

StageOrder == <<"parse", "check", "lint", "codegen">>

\* C22: start_workspace runs its stages in the order parse, check, lint,
\* codegen; a stage runs only if the sink had no errors after every earlier
\* stage; and at the end of every stage, with or without an error of that
\* stage, the diagnostics accumulated so far are emitted
C22_StagesInOrderAndEmitted ==
    driver # NoDriver =>
        /\ Len(driver.ran) <= Len(StageOrder)
        /\ \A k \in DOMAIN driver.ran :
            /\ driver.ran[k].stage = StageOrder[k]
            /\ \A j \in 1..(k - 1) : ~has_errors(driver.ran[j].diagnostics)
            /\ (driver.ran[k].diagnostics # <<>> /\ (k < Len(driver.ran) \/ driver.at = "returned"))
                    => \E e \in DOMAIN driver.emitted :
                            driver.emitted[e] = driver.ran[k]

-----------------------------------------------------------------------------
(* src/astgen/mod.rs and src/parse/import.rs: the parser tasks of
   generate_ast_inner, their cache and their channel *)

\* the most imports in the source files of a workspace
MaxImports == 2

\* the root files of the main library and of the std library, and one more
\* file, which imports nothing
SourceFiles == {"main", "std", "lib"}

RootFiles == {"main", "std"}

FileOrder == <<"main", "std", "lib">>

\* the workspaces: which file imports which
ImportGraphs ==
    {g \in SUBSET (RootFiles \X SourceFiles) : Cardinality(g) <= MaxImports}

\* the imports of a file, in the order the parser meets them
ImportsOf(graph, file) ==
    SelectSeq(FileOrder, LAMBDA f : <<file, f>> \in graph)

ParserResults == {"NewModule", "AlreadyParsed", "ParserFailed", "LexerFailed"}

ParserResult(kind, file) == [kind |-> kind, file |-> file]

ParserTask(file) == [file |-> file, at |-> "queued", todo |-> <<>>, result |-> "None"]

\* spawn_parser: a task on the thread pool that owns a clone of the sender
spawn_parser(a, module_path) ==
    [a EXCEPT !.tasks = Append(@, ParserTask(module_path)), !.senders = @ + 1]

\* the arms of the match in the result loop of generate_ast_inner
collect_every_result(a, result) ==
    [a EXCEPT !.modules = Append(@, result.file)]

collect(a, result) ==
    CASE result.kind = "NewModule" -> [a EXCEPT !.modules = Append(@, result.file)]
      [] result.kind \in {"AlreadyParsed", "ParserFailed"} -> a
      [] result.kind = "LexerFailed" ->
            [a EXCEPT !.modules = Append(@, result.file),
                      !.diagnostics = Append(@, result.file)]

AstgenFrame == UNCHANGED <<checkerVars, vmVars, driver>>

Generating == astgen # NoAstgen

\* generate_ast_inner, lines 44-63: the cache, the pool, the channel and the
\* task of the main library
SpawnMainLibrary ==
    /\ Generating
    /\ astgen.at = "start"
    /\ astgen' = [spawn_parser(astgen, "main") EXCEPT !.at = "spawn_std"]
    /\ AstgenFrame

\* generate_ast_inner, lines 65-70: the task of the std library takes the
\* sender of the main thread itself
SpawnStdLibrary ==
    /\ Generating
    /\ astgen.at = "spawn_std"
    /\ astgen' = [spawn_parser(astgen, "std") EXCEPT !.at = "collect", !.senders = @ - 1]
    /\ AstgenFrame

\* a parser task starts: under the lock of the cache the file is looked up in
\* parsed_files and inserted, then it is lexed
TaskBegin(t, lexed) ==
    /\ Generating
    /\ t \in DOMAIN astgen.tasks
    /\ astgen.tasks[t].at = "queued"
    /\ LET file == astgen.tasks[t].file
       IN astgen' =
            IF file \in astgen.parsed_files
            THEN [astgen EXCEPT !.tasks[t].at = "report", !.tasks[t].result = "AlreadyParsed"]
            ELSE IF lexed
            THEN [astgen EXCEPT !.parsed_files = @ \cup {file},
                                !.lexed[file] = @ + 1,
                                !.tasks[t].at = "parse",
                                !.tasks[t].todo = ImportsOf(astgen.graph, file)]
            ELSE [astgen EXCEPT !.parsed_files = @ \cup {file},
                                !.lexed[file] = @ + 1,
                                !.tasks[t].at = "report",
                                !.tasks[t].result = "LexerFailed"]
    /\ AstgenFrame

\* Parser::finish_parse_import: the parser of a task meets an import
FinishParseImport(t) ==
    /\ Generating
    /\ t \in DOMAIN astgen.tasks
    /\ astgen.tasks[t].at = "parse"
    /\ astgen.tasks[t].todo # <<>>
    /\ astgen' = [spawn_parser(astgen, Head(astgen.tasks[t].todo))
                    EXCEPT !.tasks[t].todo = Tail(@)]
    /\ AstgenFrame

\* a task ends: its parser has met the end of the file or a syntax error, or
\* the file was not parsed; the result is sent and the sender is dropped
TaskReport(t, result) ==
    /\ Generating
    /\ t \in DOMAIN astgen.tasks
    /\ \/ astgen.tasks[t].at = "report" /\ result = astgen.tasks[t].result
       \/ astgen.tasks[t].at = "parse" /\ result = "ParserFailed"
       \/ astgen.tasks[t].at = "parse" /\ result = "NewModule" /\ astgen.tasks[t].todo = <<>>
    /\ astgen' = [astgen EXCEPT
                    !.channel = Append(@, ParserResult(result, astgen.tasks[t].file)),
                    !.tasks[t].at = "done",
                    !.tasks[t].result = result,
                    !.senders = @ - 1]
    /\ AstgenFrame

\* generate_ast_inner, lines 72-81: one turn of `for result in rx.iter()`
ReceiveResult ==
    /\ Generating
    /\ astgen.at = "collect"
    /\ astgen.channel # <<>>
    /\ astgen' = [collect(astgen, Head(astgen.channel)) EXCEPT !.channel = Tail(@)]
    /\ AstgenFrame

\* generate_ast_inner, lines 81-96: the channel is empty and every sender is
\* dropped, rx.iter() ends, the pool is joined and the modules are returned
EndOfResults ==
    /\ Generating
    /\ astgen.at = "collect"
    /\ astgen.channel = <<>>
    /\ astgen.senders = 0
    /\ astgen' = [astgen EXCEPT !.at = "returned"]
    /\ AstgenFrame

InitAstgen ==
    /\ TopIdle
    /\ TyIdle
    /\ VmIdle
    /\ driver = NoDriver
    /\ astgen \in {[at |-> "start", graph |-> g, parsed_files |-> {},
                    lexed |-> [f \in SourceFiles |-> 0], tasks |-> <<>>,
                    senders |-> 1, channel |-> <<>>, modules |-> <<>>,
                    diagnostics |-> <<>>] : g \in ImportGraphs}

NextAstgen ==
    \/ SpawnMainLibrary
    \/ SpawnStdLibrary
    \/ \E t \in 1..(MaxImports + 2), lexed \in BOOLEAN : TaskBegin(t, lexed)
    \/ \E t \in 1..(MaxImports + 2) : FinishParseImport(t)
    \/ \E t \in 1..(MaxImports + 2), result \in ParserResults : TaskReport(t, result)
    \/ ReceiveResult
    \/ EndOfResults

SpecAstgen == InitAstgen /\ [][NextAstgen]_vars

-----------------------------------------------------------------------------
(* Properties of AST generation *)

\* C23: under any interleaving of the parser tasks each source file is lexed
\* and parsed at most once and contributes at most one module to the result,
\* also when several files import it at the same time; and the result loop
\* ends only after every spawned task, the tasks of imports included, has
\* reported and its result has been received
C23_ParsedOnceAndAllReported ==
    Generating =>
        /\ \A f \in SourceFiles : astgen.lexed[f] <= 1
        /\ \A i, j \in DOMAIN astgen.modules :
                astgen.modules[i] = astgen.modules[j] => i = j
        /\ astgen.at = "returned" =>
                /\ astgen.channel = <<>>
                /\ \A t \in DOMAIN astgen.tasks : astgen.tasks[t].at = "done"

\* both libraries import the third file, its two tasks have run, one of them
\* found the file in the cache, and the loop has ended
C23_Witness ==
    /\ Generating
    /\ astgen.at = "returned"
    /\ astgen.graph = {<<"main", "lib">>, <<"std", "lib">>}
    /\ Len(astgen.tasks) = 4
    /\ \E t \in DOMAIN astgen.tasks :
            astgen.tasks[t].file = "lib" /\ astgen.tasks[t].result = "AlreadyParsed"
    /\ \E t \in DOMAIN astgen.tasks :
            astgen.tasks[t].file = "lib" /\ astgen.tasks[t].result = "NewModule"
    /\ Len(astgen.modules) = 3

====
